---- MODULE Spec2Model ----
(***************************************************************************)
(* A model of the retrieval-and-response pipeline of the University AI     *)
(* Assistant: the response cache (database/faq_cache.py), the retrieval    *)
(* agent (agents/qa_agent.py), the orchestrator (agents/orchestrator.py)   *)
(* with its two memory tiers (core/memory.py) and the chat input handler   *)
(* (app.py).                                                               *)
(***************************************************************************)
EXTENDS Integers, Sequences, FiniteSets, TLC

VARIABLES
    faq_cache,     \* rows of table faq_cache (faq_cache.py:38-48)
    cache_seq,     \* last AUTOINCREMENT id handed out for faq_cache
    clock,         \* UTC wall clock in ticks: what CURRENT_TIMESTAMP reads
    utc_offset,    \* local time minus UTC: datetime.now() reads clock + utc_offset
    cache_call,    \* the last completed FAQCache call and what it returned
    collection,    \* the passages of the vector index (VectorStore.collection)
    qa_call,       \* the last completed QAAgent.answer call: its inputs, what the
                   \* collaborators did during it, and what it returned
    session_memory,  \* SessionMemory._sessions: session id -> window of turns
    conversations,   \* rows of table conversations, in insertion order
    chat_history,    \* st.session_state.chat_history of each browser session
    app_call,        \* the last run of the chat input handler
    document_mode,   \* _embedding_instance.document_mode of the shared instance
    collection_loaded, \* VectorStore._collection is not None
    embed_threads,   \* the embedding calls in flight, one per thread
    cache_callers,   \* the check-then-write sequences in flight on the cache
    add_turn_calls,  \* the SessionMemory.add_turn calls in flight on one session
    fn_call          \* the last call of one of the adapters or helpers made on
                     \* its own: its arguments, and its result once it returned

cache_vars == <<faq_cache, cache_seq, clock, utc_offset, cache_call>>

qa_vars == <<collection, qa_call>>

app_vars == <<session_memory, conversations, chat_history, app_call>>

proc_vars ==
    <<document_mode, collection_loaded, embed_threads, cache_callers, add_turn_calls>>

state_vars == <<cache_vars, qa_vars, app_vars, proc_vars>>

vars ==
    <<faq_cache, cache_seq, clock, utc_offset, cache_call, collection, qa_call,
      session_memory, conversations, chat_history, app_call, document_mode,
      collection_loaded, embed_threads, cache_callers, add_turn_calls, fn_call>>

(***************************************************************************)
(* Bounds and configuration                                                *)
(***************************************************************************)

\* config.MAX_CACHE_SIZE (config.py:41, default 1000), scaled down
max_size == 2

\* config.FAQ_CACHE_TTL_HOURS (config.py:40, default 24), in ticks, scaled down
ttl_hours == 2

\* the clock of the expiry runs stops advancing here
MaxClock == 3

\* the clock of the other cache runs stops advancing here
ShortClock == 1

\* config.MAX_CONVERSATION_HISTORY (config.py:44, default 10), scaled down
max_turns == 1

\* the chat input handler runs at most this often in the application runs
MaxChats == 2

\* no row's hit_count is pushed beyond this
MaxHits == 3

\* the metadatas of the longest list of the source-extraction runs
MaxMetas == 3

\* no row's hit_count is pushed beyond this in the eviction runs
LruHits == 2

\* the characters of the longest query of the normalisation runs
MaxLen == 3

\* config.TOP_K_RESULTS (config.py:20, default 5), scaled down
TOP_K_RESULTS == 2

\* LLMClient._call_with_retry: max_retries (llm.py:65) and the seconds of
\* backoff per attempt (llm.py:79)
max_retries == 3
BackoffSeconds == 15

\* GeminiEmbeddingFunction._embed_with_retry: max_retries
\* (GeminiEmbeddingFunction.py:39) and the seconds of backoff per attempt
\* (GeminiEmbeddingFunction.py:51)
embed_max_retries == 5
EmbedBackoffSeconds == 30

\* GeminiEmbeddings.embedding_dim (embeddings.py:32)
embedding_dim == 768

\* the texts of the longest batch of the embedding runs
MaxTexts == 2

\* the largest window of a session tier of the runs, and the turns added to
\* one session
MaxWindow == 2
MaxAdds == 3

\* the rows of a durable log of the runs, and the largest limit of a read
MaxLogged == 3
MaxLimit == 2

\* config.MAX_CONTEXT_LENGTH (config.py:26, default 8000), scaled down, in
\* units of the prompt; the passages and the turns of a prompt of the runs
max_context == 25
MaxPassages == 2
MaxHistory == 6

\* the calls of process_query in a run of the orchestrator
MaxCalls == 2

\* the calls of the administrative accessors in a run
MaxAccessorCalls == 2

\* the entries written to the cache before two callers race on it
MaxWarm == 3

\* the calls of one vector store in a run
MaxStoreCalls == 4

\* local-time offsets from UTC of the hosts the program runs on, in ticks
\* (west of UTC, UTC, east of UTC); every positive offset is below the TTL
UtcOffsets == {-2, 0, 1}

Min(a, b) == IF a < b THEN a ELSE b

\* Python's None where a string is expected
None == "None"

\* an answer text: what kind of text it is and the text it embeds
Answer(kind, text) == [kind |-> kind, text |-> text]

\* Python's None where an answer is expected
NoAnswer == Answer("None", "None")

(***************************************************************************)
(* Strings: a character is a letter in one of two cases, or whitespace     *)
(***************************************************************************)

SPACE == <<"ws", 0>>
TAB == <<"ws", 1>>
Lo(i) == <<"lower", i>>
Up(i) == <<"upper", i>>

IsSpace(c) == c[1] = "ws"

\* str.lower()
str_lower(s) ==
    [i \in 1..Len(s) |-> IF s[i][1] = "upper" THEN <<"lower", s[i][2]>> ELSE s[i]]

\* str.strip(): leading and trailing whitespace removed
RECURSIVE lstrip(_)
lstrip(s) ==
    IF s # <<>> /\ IsSpace(Head(s)) THEN lstrip(Tail(s)) ELSE s

RECURSIVE rstrip(_)
rstrip(s) ==
    IF s # <<>> /\ IsSpace(s[Len(s)]) THEN rstrip(SubSeq(s, 1, Len(s) - 1)) ELSE s

str_strip(s) == rstrip(lstrip(s))

\* str.split() with no separator: the maximal runs of non-whitespace
RECURSIVE split_from(_, _)
split_from(s, word) ==
    IF s = <<>> THEN (IF word = <<>> THEN <<>> ELSE <<word>>)
    ELSE IF IsSpace(Head(s))
         THEN (IF word = <<>> THEN <<>> ELSE <<word>>) \o split_from(Tail(s), <<>>)
         ELSE split_from(Tail(s), Append(word, Head(s)))

str_split(s) == split_from(s, <<>>)

\* " ".join(words)
RECURSIVE str_join(_)
str_join(words) ==
    IF words = <<>> THEN <<>>
    ELSE IF Len(words) = 1 THEN Head(words)
    ELSE Head(words) \o <<SPACE>> \o str_join(Tail(words))

\* hashlib.sha256(...).hexdigest()[:32]: the digest of a string, taken to be
\* collision-free on the strings of the model
Sha256Hex32(s) == <<"sha256", s>>

\* a normalisation that keeps the case of the letters
Mut_normalize(query) == str_join(str_split(str_strip(query)))

\* FAQCache._hash_query, line 61
normalize(query) == str_join(str_split(str_strip(str_lower(query))))

\* FAQCache._hash_query
hash_query(query) == Sha256Hex32(normalize(query))

(***************************************************************************)
(* The response cache                                                      *)
(***************************************************************************)

Ids(rows) == {row.id : row \in rows}

RowsOf(rows, query_hash) == {row \in rows : row.query_hash = query_hash}

\* datetime.now(): naive local time
LocalNow == clock + utc_offset

\* FAQCache.get, lines 79-84: created_at (UTC, written by CURRENT_TIMESTAMP)
\* compared with datetime.now() - timedelta(hours=ttl_hours) (local time)
within_ttl(row) == row.created_at > LocalNow - ttl_hours

\* fetchone(): the first row of the result, in rowid order
FirstRow(rows) == CHOOSE row \in rows : \A other \in rows : row.id <= other.id

\* a hit that leaves the row as it was
Mut_bump(row) == row

\* FAQCache.get, lines 90-95: the UPDATE of a hit
bump(row) == [row EXCEPT !.hit_count = @ + 1, !.last_accessed = clock]

\* row a is ahead of row b in ORDER BY last_accessed ASC; rows with equal
\* last_accessed come out in scan (rowid) order
Before(a, b) ==
    \/ a.last_accessed < b.last_accessed
    \/ a.last_accessed = b.last_accessed /\ a.id < b.id

\* an eviction that deletes the most recently accessed rows
Mut_lru_victims(rows, excess) ==
    {row \in rows : Cardinality({other \in rows : Before(row, other)}) < excess}

\* FAQCache._cleanup_if_needed, lines 142-149: the first `excess` rows
\* ORDER BY last_accessed ASC
lru_victims(rows, excess) ==
    {row \in rows : Cardinality({other \in rows : Before(other, row)}) < excess}

\* a cleanup that never deletes
Mut_cleanup_if_needed(rows) == rows

\* FAQCache._cleanup_if_needed
cleanup_if_needed(rows) ==
    LET count == Cardinality(rows) IN
    IF count > max_size THEN rows \ lru_victims(rows, count - max_size) ELSE rows

\* an upsert that never takes the ON CONFLICT branch
Mut_upsert(rows, query, response) ==
    rows \cup {[id |-> cache_seq + 1, query_hash |-> hash_query(query),
                query |-> query, response |-> response, hit_count |-> 1,
                created_at |-> clock, last_accessed |-> clock]}

\* an upsert whose ON CONFLICT branch starts the counter again
Mut_upsert_resets(rows, query, response) ==
    LET query_hash == hash_query(query) IN
    IF RowsOf(rows, query_hash) # {}
    THEN {IF row.query_hash = query_hash
          THEN [row EXCEPT !.response = response, !.hit_count = 1,
                           !.last_accessed = clock]
          ELSE row : row \in rows}
    ELSE rows \cup {[id |-> cache_seq + 1, query_hash |-> query_hash,
                     query |-> query, response |-> response, hit_count |-> 1,
                     created_at |-> clock, last_accessed |-> clock]}

\* FAQCache.set, lines 116-123: INSERT ... ON CONFLICT(query_hash) DO UPDATE
upsert(rows, query, response) ==
    LET query_hash == hash_query(query) IN
    IF RowsOf(rows, query_hash) # {}
    THEN {IF row.query_hash = query_hash
          THEN [row EXCEPT !.response = response, !.hit_count = @ + 1,
                           !.last_accessed = clock]
          ELSE row : row \in rows}
    ELSE rows \cup {[id |-> cache_seq + 1, query_hash |-> query_hash,
                     query |-> query, response |-> response, hit_count |-> 1,
                     created_at |-> clock, last_accessed |-> clock]}

NoCall ==
    [op |-> "none", query |-> <<>>, response |-> NoAnswer, ret |-> NoAnswer,
     repeat |-> FALSE, evicted |-> {}]

\* FAQCache.get: the table after the call and the value returned
cache_get(rows, query) ==
    LET query_hash == hash_query(query)
        found == {row \in RowsOf(rows, query_hash) : within_ttl(row)}
    IN  IF found # {}
        THEN [rows |-> {IF row.query_hash = query_hash THEN bump(row) ELSE row :
                           row \in rows},
              ret |-> FirstRow(found).response]
        ELSE [rows |-> rows, ret |-> NoAnswer]

\* FAQCache.set: the table after the upsert and after the cleanup
cache_set(rows, query, response) ==
    LET written == upsert(rows, query, response)
    IN  [written |-> written, rows |-> cleanup_if_needed(written)]

\* FAQCache.get
Get(query) ==
    LET got == cache_get(faq_cache, query)
    IN  /\ faq_cache' = got.rows
        /\ cache_call' = [op |-> "get", query |-> query, response |-> NoAnswer,
                          ret |-> got.ret, repeat |-> FALSE, evicted |-> {}]
        /\ UNCHANGED <<cache_seq, clock, utc_offset>>
        /\ UNCHANGED qa_vars
        /\ UNCHANGED app_vars
        /\ UNCHANGED <<fn_call, proc_vars>>

\* FAQCache.set
Set(query, response) ==
    LET put == cache_set(faq_cache, query, response)
    IN  /\ faq_cache' = put.rows
        /\ cache_seq' = IF Ids(put.written) = Ids(faq_cache) THEN cache_seq
                         ELSE cache_seq + 1
        /\ cache_call' = [op |-> "set", query |-> query, response |-> response,
                          ret |-> NoAnswer,
                          repeat |-> /\ cache_call.op = "set"
                                     /\ cache_call.query = query
                                     /\ cache_call.response = response,
                          evicted |-> put.written \ put.rows]
        /\ UNCHANGED <<clock, utc_offset>>
        /\ UNCHANGED qa_vars
        /\ UNCHANGED app_vars
        /\ UNCHANGED <<fn_call, proc_vars>>

\* time passes
Tick ==
    /\ clock' = clock + 1
    /\ UNCHANGED <<faq_cache, cache_seq, utc_offset, cache_call>>
    /\ UNCHANGED qa_vars
    /\ UNCHANGED app_vars
    /\ UNCHANGED <<fn_call, proc_vars>>

(***************************************************************************)
(* The generation adapter (core/llm.py)                                    *)
(***************************************************************************)

\* what the provider does at each attempt of one generate: "ok", "429" (a
\* rate-limit error) or "500" (any other error)
Scripts == [1..max_retries -> {"ok", "429", "500"}]

\* a retry loop that allows one attempt more
RECURSIVE Mut_retry_from(_, _, _)
Mut_retry_from(script, attempt, waits) ==
    IF attempt >= max_retries + 1
    THEN [raised |-> FALSE, error |-> None, response |-> None,
          calls |-> attempt, waits |-> waits]
    ELSE IF script[attempt + 1] = "ok"
    THEN [raised |-> FALSE, error |-> None, response |-> "ok",
          calls |-> attempt + 1, waits |-> waits]
    ELSE IF script[attempt + 1] = "429" /\ attempt < max_retries
         THEN Mut_retry_from(script, attempt + 1,
                             Append(waits, BackoffSeconds * (attempt + 1)))
         ELSE [raised |-> TRUE, error |-> script[attempt + 1], response |-> None,
               calls |-> attempt + 1, waits |-> waits]

\* LLMClient._call_with_retry from attempt `attempt` (0-based) on: whether it
\* raised, what it returned, the provider calls made and the seconds slept.
\* A loop that runs out of attempts returns None.
RECURSIVE retry_from(_, _, _)
retry_from(script, attempt, waits) ==
    IF attempt >= max_retries
    THEN [raised |-> FALSE, error |-> None, response |-> None,
          calls |-> attempt, waits |-> waits]
    ELSE IF script[attempt + 1] = "ok"
    THEN [raised |-> FALSE, error |-> None, response |-> "ok",
          calls |-> attempt + 1, waits |-> waits]
    ELSE IF script[attempt + 1] = "429" /\ attempt < max_retries - 1
         THEN retry_from(script, attempt + 1,
                         Append(waits, BackoffSeconds * (attempt + 1)))
         ELSE [raised |-> TRUE, error |-> script[attempt + 1], response |-> None,
               calls |-> attempt + 1, waits |-> waits]

\* LLMClient._call_with_retry
call_with_retry(script) == retry_from(script, 0, <<>>)

\* LLMClient.generate: every exception, the provider's or the one of reading
\* the text of no response, becomes an apology that embeds it; generate
\* itself never raises
generate(prompt, script, text) ==
    LET r == call_with_retry(script)
    IN  [raised |-> FALSE, error |-> None,
         answer |-> IF r.raised THEN Answer("llm_error", r.error)
                    ELSE IF r.response = None THEN Answer("llm_error", "AttributeError")
                    ELSE Answer("generated", text),
         prompt |-> prompt, calls |-> r.calls, waits |-> r.waits]

\* a slice that keeps the oldest turns
Mut_LastTurns(history, n) ==
    IF Len(history) <= n THEN history ELSE SubSeq(history, 1, n)

\* conversation_history[-5:]
LastTurns(history, n) ==
    IF Len(history) <= n THEN history
    ELSE SubSeq(history, Len(history) - n + 1, Len(history))

\* The prompt is a sequence of units: a fixed piece of the template is one
\* unit, a passage, a system prompt or an answer is one unit, and a query is
\* its characters.
Lit(s) == <<"lit", s>>
NL == Lit("NL")
Unit(text) == <<"text", text>>
RefLabel(i) == <<"[Reference i]: ", i>>
TruncationMarker == Lit("NL[Context truncated due to length]")

\* lines 107-110: "[Reference i]: passage", joined by two newlines
RECURSIVE context_of(_, _)
context_of(context_passages, i) ==
    IF i > Len(context_passages) THEN <<>>
    ELSE (IF i > 1 THEN <<NL, NL>> ELSE <<>>)
         \o <<RefLabel(i), Unit(context_passages[i])>>
         \o context_of(context_passages, i + 1)

\* lines 113-117: a User line and an Assistant line for each turn
RECURSIVE history_text_of(_)
history_text_of(turns) ==
    IF turns = <<>> THEN <<>>
    ELSE <<Lit("User: ")>> \o Head(turns).user \o <<NL>>
         \o <<Lit("Assistant: "), Unit(Head(turns).assistant), NL, NL>>
         \o history_text_of(Tail(turns))

\* lines 104-133: the prompt as assembled
assemble_prompt(query, context_passages, conversation_history, system_prompt) ==
    LET history_text == history_text_of(LastTurns(conversation_history, 5))
    IN  <<NL, Unit(system_prompt), NL, NL, Lit("REFERENCE INFORMATION:"), NL>>
        \o context_of(context_passages, 1)
        \o <<NL, NL>>
        \o (IF history_text # <<>> THEN <<Lit("PREVIOUS CONVERSATION:")>> ELSE <<>>)
        \o <<NL>>
        \o history_text
        \o <<NL, NL, Lit("USER QUESTION: ")>>
        \o query
        \o <<NL, NL, Lit("Provide a helpful, accurate response ..."), NL>>

\* a truncation that also cuts a prompt of exactly the budget
Mut_truncate(prompt) ==
    IF Len(prompt) >= max_context
    THEN SubSeq(prompt, 1, max_context) \o <<TruncationMarker>>
    ELSE prompt

\* lines 136-137: prompt[:max_context] + marker when the prompt is longer
truncate(prompt) ==
    IF Len(prompt) > max_context
    THEN SubSeq(prompt, 1, max_context) \o <<TruncationMarker>>
    ELSE prompt

\* LLMClient.generate_with_context: the prompt is assembled, truncated and
\* handed to generate
generate_with_context(query, context_passages, conversation_history, system_prompt, script, text) ==
    generate(truncate(assemble_prompt(query, context_passages, conversation_history,
                                      system_prompt)),
             script, text)

(***************************************************************************)
(* The embedding adapters (core/embeddings.py, GeminiEmbeddingFunction.py) *)
(***************************************************************************)

\* response.embeddings[0].values for a text
Vector(text) == <<"embedding", text>>

\* [0.0] * self.embedding_dim
ZeroVector == <<"zero", embedding_dim>>

\* Python's None where a vector is expected
NoVector == <<"None", 0>>

\* a retry loop whose backoff doubles with every attempt
RECURSIVE Mut_embed_retry_from(_, _, _, _)
Mut_embed_retry_from(text, script, attempt, waits) ==
    IF attempt >= embed_max_retries
    THEN [value |-> NoVector, calls |-> attempt, waits |-> waits]
    ELSE IF script[attempt + 1] = "ok"
    THEN [value |-> Vector(text), calls |-> attempt + 1, waits |-> waits]
    ELSE IF script[attempt + 1] = "429"
    THEN Mut_embed_retry_from(text, script, attempt + 1,
                              Append(waits, EmbedBackoffSeconds * (2 ^ attempt)))
    ELSE [value |-> NoVector, calls |-> attempt + 1, waits |-> waits]

\* GeminiEmbeddingFunction._embed_with_retry from attempt `attempt` (0-based)
\* on: the value returned, the provider calls made and the seconds slept.
\* The sleep follows every rate-limited attempt, the last one too.
RECURSIVE embed_retry_from(_, _, _, _)
embed_retry_from(text, script, attempt, waits) ==
    IF attempt >= embed_max_retries
    THEN [value |-> NoVector, calls |-> attempt, waits |-> waits]
    ELSE IF script[attempt + 1] = "ok"
    THEN [value |-> Vector(text), calls |-> attempt + 1, waits |-> waits]
    ELSE IF script[attempt + 1] = "429"
    THEN embed_retry_from(text, script, attempt + 1,
                          Append(waits, EmbedBackoffSeconds * (attempt + 1)))
    ELSE [value |-> NoVector, calls |-> attempt + 1, waits |-> waits]

\* GeminiEmbeddingFunction._embed_with_retry
embed_with_retry(text, script) == embed_retry_from(text, script, 0, <<>>)

\* GeminiEmbeddingFunction.__call__: scripts[i] is what the provider does at
\* each attempt for input[i]; a text without a vector fails the whole batch
GeminiEmbeddingFunction_call(input, scripts) ==
    LET each == [i \in 1..Len(input) |-> embed_with_retry(input[i], scripts[i])]
        failed == \E i \in 1..Len(input) : each[i].value = NoVector
    IN  [raised |-> failed,
         embeddings |-> IF failed THEN <<>>
                        ELSE [i \in 1..Len(input) |-> each[i].value],
         calls |-> [i \in 1..Len(input) |-> each[i].calls],
         waits |-> [i \in 1..Len(input) |-> each[i].waits]]

\* GeminiEmbeddings.__call__: one provider call per text, and the zero
\* vector for a text whose call raised, whatever it raised
GeminiEmbeddings_call(input, scripts) ==
    [raised |-> FALSE,
     embeddings |-> [i \in 1..Len(input) |->
                        IF scripts[i][1] = "ok" THEN Vector(input[i]) ELSE ZeroVector],
     calls |-> [i \in 1..Len(input) |-> 1],
     waits |-> [i \in 1..Len(input) |-> <<>>]]

\* the embedding adapter of the running application (vector_store.py:31,
\* :100) and the one of the ingestion script (load_document.py:19)
Adapters == {"GeminiEmbeddings", "GeminiEmbeddingFunction"}

embed(adapter, input, scripts) ==
    IF adapter = "GeminiEmbeddings" THEN GeminiEmbeddings_call(input, scripts)
    ELSE GeminiEmbeddingFunction_call(input, scripts)

\* the threads of the process that call the shared instance
Threads == {"t1", "t2"}

\* a thread that is in no embedding call
IdleThread == [pc |-> "idle"]

\* no call of SessionMemory.add_turn in flight: where each thread is in its
\* call, whether _sessions holds the key of the session, and the threads in
\* the order their turns were appended
NoAddTurnCalls ==
    [at |-> [t \in Threads |-> IdleThread], has_key |-> FALSE, appended |-> <<>>]

\* the process after import: no instance yet (its mode, once built, is the
\* default of the constructor), no collection loaded, no call in flight
InitProcess ==
    /\ document_mode = TRUE
    /\ collection_loaded = FALSE
    /\ embed_threads = [t \in Threads |-> IdleThread]
    /\ cache_callers = [t \in Threads |-> IdleThread]
    /\ add_turn_calls = NoAddTurnCalls

\* GeminiEmbeddings.__call__, line 49: the task hint of the call
task_of(mode) == IF mode THEN "retrieval_document" ELSE "retrieval_query"

(***************************************************************************)
(* The vector index (core/vector_store.py)                                 *)
(***************************************************************************)

Passage(id, text, source, document_type, page) ==
    [id |-> id, text |-> text,
     metadata |-> [source |-> source, document_type |-> document_type, page |-> page]]

P1 == Passage("id1", "Registration closes March 1", "handbook.pdf", "regulations", 3)
P2 == Passage("id2", "Fees are due in September", "handbook.pdf", "regulations", 7)
P3 == Passage("id3", "Exams start in June", "calendar.pdf", "academic", 1)

\* the indexes of the runs: empty, one passage, three passages of two sources
Corpora == { {}, {P1}, {P1, P2, P3} }

EmptyResult == [documents |-> <<>>, metadatas |-> <<>>, distances |-> <<>>, ids |-> <<>>]

\* the passages a metadata filter lets through
Matching(docs, where) ==
    {d \in docs :
        /\ where.document_type # None => d.metadata.document_type = where.document_type
        /\ where.source # None => d.metadata.source = where.source}

NoWhere == [document_type |-> None, source |-> None]

\* the rankings the index can answer with: the n_results nearest of the
\* passages the filter lets through, nearest first
Rankings(docs, n_results) ==
    LET n == Min(n_results, Cardinality(docs))
    IN  {r \in [1..n -> docs] : \A i \in 1..n, j \in 1..n : r[i] = r[j] => i = j}

\* VectorStore.query. get_embedding_function (line 100) is called outside
\* the try: what it raises leaves query; what collection.query raises is
\* caught and answered with the empty result.
vector_store_query(query_text, where, env) ==
    IF env.embed = "raise"
    THEN [raised |-> TRUE, error |-> "embedding client", results |-> EmptyResult]
    ELSE IF env.index = "raise"
    THEN [raised |-> FALSE, error |-> None, results |-> EmptyResult]
    ELSE [raised |-> FALSE, error |-> None,
          results |-> [documents |-> [i \in 1..Len(env.ranked) |-> env.ranked[i].text],
                       metadatas |-> [i \in 1..Len(env.ranked) |-> env.ranked[i].metadata],
                       distances |-> [i \in 1..Len(env.ranked) |-> i],
                       ids |-> [i \in 1..Len(env.ranked) |-> env.ranked[i].id]]]

\* VectorStore.query_with_filter
query_with_filter(query_text, document_type, source_file, env) ==
    vector_store_query(query_text,
                       [document_type |-> document_type, source |-> source_file], env)

\* get_embedding_function(document_mode): the shared instance, its mode set
get_embedding_function(mode, new_mode) == new_mode

\* the property VectorStore.collection: the first access loads the
\* collection and, for that, gets the instance in document mode
collection_property(mode, loaded) ==
    [document_mode |-> IF loaded THEN mode ELSE get_embedding_function(mode, TRUE),
     collection_loaded |-> TRUE]

\* how the index library embeds the text of a query: by the instance's
\* __call__, or by its embed_query where the library knows of it
QueryEmbedders == {"__call__", "embed_query"}

\* GeminiEmbeddings.embed_query run alone: the mode is set to query mode for
\* the call and put back after it
embed_query_task(mode) == [task |-> task_of(FALSE), document_mode |-> mode]

\* VectorStore.add_documents, as to the mode: self.collection, then
\* collection.add, which embeds the documents by the instance's __call__
add_documents_mode(mode, loaded) ==
    LET c == collection_property(mode, loaded)
    IN  [document_mode |-> c.document_mode, collection_loaded |-> TRUE,
         task |-> task_of(c.document_mode)]

\* VectorStore.query, as to the mode: get_embedding_function(False), then
\* self.collection, then collection.query, which embeds the text
query_mode(mode, loaded, embedder) ==
    LET c == collection_property(get_embedding_function(mode, FALSE), loaded)
        q == IF embedder = "embed_query" THEN embed_query_task(c.document_mode)
             ELSE [task |-> task_of(c.document_mode), document_mode |-> c.document_mode]
    IN  [document_mode |-> q.document_mode, collection_loaded |-> TRUE,
         task |-> q.task]

(***************************************************************************)
(* The retrieval agent (agents/qa_agent.py)                                *)
(***************************************************************************)

\* QAAgent._build_system_prompt
system_prompt == "You are an expert university administrative assistant ..."

\* QAAgent._no_context_response: the apology that quotes the query
no_context_response(query) == Answer("no_context", query)

\* meta.get("page") of a metadata that holds no page
NoPage == 0

\* a metadata that is None or the empty dict
NoMeta == [source |-> None, document_type |-> None, page |-> NoPage]

\* the entry of QAAgent._extract_sources for one metadata, lines 129-136:
\* an absent source reads "Unknown", an absent document_type "general"
source_of(meta) == IF meta.source = None THEN "Unknown" ELSE meta.source

source_entry(meta) ==
    [file |-> source_of(meta),
     document_type |-> IF meta.document_type = None THEN "general"
                       ELSE meta.document_type,
     page |-> meta.page]

\* QAAgent._extract_sources, the loop of lines 126-136
RECURSIVE extract_from(_, _)
extract_from(metadatas, seen_sources) ==
    IF metadatas = <<>> THEN <<>>
    ELSE LET meta == Head(metadatas)
         IN  IF meta = NoMeta \/ source_of(meta) \in seen_sources
             THEN extract_from(Tail(metadatas), seen_sources)
             ELSE <<source_entry(meta)>>
                  \o extract_from(Tail(metadatas),
                                  seen_sources \cup {source_of(meta)})

\* an extraction that forgets which sources it has seen
Mut_extract_sources(metadatas) ==
    [i \in 1..Len(metadatas) |-> source_entry(metadatas[i])]

\* QAAgent._extract_sources
extract_sources(metadatas) == extract_from(metadatas, {})

\* document_filter: `given` is false for None and for an empty dict
NoFilter == [given |-> FALSE, document_type |-> None, source_file |-> None]

Filter(document_type, source_file) ==
    [given |-> TRUE, document_type |-> document_type, source_file |-> source_file]

\* the where clause QAAgent.answer ends up querying with
WhereOf(document_filter) ==
    IF document_filter.given
    THEN [document_type |-> document_filter.document_type,
          source |-> document_filter.source_file]
    ELSE NoWhere

\* the retrieval of QAAgent.answer, lines 65-76
retrieve(query, document_filter, env) ==
    IF document_filter.given
    THEN query_with_filter(query, document_filter.document_type,
                           document_filter.source_file, env)
    ELSE vector_store_query(query, NoWhere, env)

\* the except branch of QAAgent.answer, lines 109-116
on_exception(error) ==
    [response |-> [answer |-> Answer("qa_error", error), sources |-> <<>>,
                   context_chunks |-> <<>>,
                   metadata |-> [num_passages |-> 0, distances |-> <<>>]],
     raised |-> FALSE, state |-> "ERROR", gwc_calls |-> <<>>, provider_calls |-> 0]

\* a grounded branch that forgets the conversation history
Mut_grounded(query, conversation_history, results, env) ==
    LET g == generate_with_context(query, results.documents, <<>>, system_prompt,
                                   env.script, env.text)
    IN  [response |-> [answer |-> g.answer,
                       sources |-> extract_sources(results.metadatas),
                       context_chunks |-> results.documents,
                       metadata |-> [num_passages |-> Len(results.documents),
                                     distances |-> results.distances]],
         raised |-> FALSE, state |-> "GROUNDED",
         gwc_calls |-> <<[query |-> query, context_passages |-> results.documents,
                          conversation_history |-> <<>>,
                          system_prompt |-> system_prompt]>>,
         provider_calls |-> g.calls]

\* QAAgent.answer with passages, lines 86-95 and 100-108
grounded(query, conversation_history, results, env) ==
    LET g == generate_with_context(query, results.documents, conversation_history,
                                   system_prompt, env.script, env.text)
    IN  [response |-> [answer |-> g.answer,
                       sources |-> extract_sources(results.metadatas),
                       context_chunks |-> results.documents,
                       metadata |-> [num_passages |-> Len(results.documents),
                                     distances |-> results.distances]],
         raised |-> FALSE, state |-> "GROUNDED",
         gwc_calls |-> <<[query |-> query, context_passages |-> results.documents,
                          conversation_history |-> conversation_history,
                          system_prompt |-> system_prompt]>>,
         provider_calls |-> g.calls]

\* a fallback that asks the model although nothing was retrieved
Mut_ungrounded(query, conversation_history, results, env) ==
    grounded(query, conversation_history, results, env)

\* QAAgent.answer without passages, lines 96-108
ungrounded(query, conversation_history, results, env) ==
    [response |-> [answer |-> no_context_response(query), sources |-> <<>>,
                   context_chunks |-> results.documents,
                   metadata |-> [num_passages |-> Len(results.documents),
                                 distances |-> results.distances]],
     raised |-> FALSE, state |-> "UNGROUNDED", gwc_calls |-> <<>>, provider_calls |-> 0]

\* QAAgent.answer: the response returned, the branch taken, the calls of
\* generate_with_context made and the number of calls of the generation
\* provider
answer(query, conversation_history, document_filter, env) ==
    LET got == retrieve(query, document_filter, env)
    IN  IF got.raised THEN on_exception(got.error)
        ELSE IF got.results.documents # <<>>
        THEN grounded(query, conversation_history, got.results, env)
        ELSE ungrounded(query, conversation_history, got.results, env)

NoQaCall == [op |-> "none"]

\* QAAgent.answer, called with some query, history and filter, while the
\* embedding client, the index and the generation provider do as `env` says
QaAnswer(query, conversation_history, document_filter, env) ==
    /\ qa_call' = [op |-> "answer", query |-> query,
                   conversation_history |-> conversation_history,
                   document_filter |-> document_filter, env |-> env,
                   out |-> answer(query, conversation_history, document_filter, env)]
    /\ UNCHANGED collection
    /\ UNCHANGED cache_vars
    /\ UNCHANGED app_vars
    /\ UNCHANGED <<fn_call, proc_vars>>

\* the environments of one call on the index `docs` with filter `document_filter`
Envs(docs, document_filter) ==
    [embed : {"ok", "raise"}, index : {"ok", "raise"},
     ranked : Rankings(Matching(docs, WhereOf(document_filter)), TOP_K_RESULTS),
     script : Scripts, text : {"a1"}]

(***************************************************************************)
(* The intent router (core/llm.py, agents/orchestrator.py)                 *)
(***************************************************************************)

BANG == <<"punct", 0>>

IsPunct(c) == c[1] = "punct"

RECURSIVE rstrip_punct(_)
rstrip_punct(s) ==
    IF s # <<>> /\ IsPunct(s[Len(s)]) THEN rstrip_punct(SubSeq(s, 1, Len(s) - 1)) ELSE s

\* the words "hi", "bonjour", "help", "qa", "admin", "general" and the keyword
\* "all users"
HI == <<Lo(8), Lo(9)>>
BONJOUR == <<Lo(2), Lo(15), Lo(14), Lo(10), Lo(15), Lo(21), Lo(18)>>
HELP == <<Lo(8), Lo(5), Lo(12), Lo(16)>>
QA == <<Lo(17), Lo(1)>>
ADMIN == <<Lo(1), Lo(4), Lo(13), Lo(9), Lo(14)>>
GENERAL == <<Lo(7), Lo(5), Lo(14), Lo(5), Lo(18), Lo(1), Lo(12)>>
ALL_USERS ==
    <<Lo(1), Lo(12), Lo(12), SPACE, Lo(21), Lo(19), Lo(5), Lo(18), Lo(19)>>

\* _GREETING_PATTERNS.match(query): optional whitespace, one of the words,
\* optional whitespace, a run of [!?.], optional whitespace; case ignored.
\* Of the alternatives of the pattern the model carries "hi", "bonjour" and
\* "help".
greeting_patterns_match(query) ==
    lstrip(rstrip(rstrip_punct(rstrip(str_lower(query))))) \in {HI, BONJOUR, HELP}

\* _greeting_re.match(q) of classify_intent, on the stripped query: the same
\* words without "help", and no whitespace after the punctuation
greeting_re_match(q) == rstrip(rstrip_punct(str_lower(q))) \in {HI, BONJOUR}

\* kw in q.lower()
Contains(s, kw) ==
    \E i \in 1..(Len(s) - Len(kw) + 1) : SubSeq(s, i, i + Len(kw) - 1) = kw

\* of the four admin keywords the model carries "all users"
admin_kw == {ALL_USERS}

\* the prompt of the classification call
ClassifyPrompt(q) == [classify |-> q]

\* a default that reads any other output as small talk
Mut_intent_of(intent) ==
    IF intent = QA THEN "qa"
    ELSE IF intent = ADMIN THEN "admin"
    ELSE "general"

\* the category of a classification output, 'qa' for any other output
intent_of(intent) ==
    IF intent = QA THEN "qa"
    ELSE IF intent = ADMIN THEN "admin"
    ELSE IF intent = GENERAL THEN "general"
    ELSE "qa"

\* a classification that compares the output of the model as it comes
Mut_classify_intent(query, cls) ==
    LET q == str_strip(query) IN
    IF greeting_re_match(q) THEN [intent |-> "general", generates |-> 0, calls |-> 0]
    ELSE IF \E kw \in admin_kw : Contains(str_lower(q), kw)
    THEN [intent |-> "admin", generates |-> 0, calls |-> 0]
    ELSE LET g == generate(ClassifyPrompt(q), cls.script, cls.text)
             intent == IF g.answer.kind = "generated" THEN g.answer.text ELSE <<>>
         IN  [intent |-> intent_of(intent), generates |-> 1, calls |-> g.calls]

\* LLMClient.classify_intent: the intent, the calls of generate and the
\* requests these made to the provider
classify_intent(query, cls) ==
    LET q == str_strip(query) IN
    IF greeting_re_match(q) THEN [intent |-> "general", generates |-> 0, calls |-> 0]
    ELSE IF \E kw \in admin_kw : Contains(str_lower(q), kw)
    THEN [intent |-> "admin", generates |-> 0, calls |-> 0]
    ELSE LET g == generate(ClassifyPrompt(q), cls.script, cls.text)
             intent == IF g.answer.kind = "generated"
                       THEN str_lower(str_strip(g.answer.text)) ELSE <<>>
         IN  [intent |-> intent_of(intent), generates |-> 1, calls |-> g.calls]

\* an orchestrator that hands every query to classify_intent
Mut_classify(query, cls) == classify_intent(query, cls)

\* AgentOrchestrator.process_query, lines 72-77: the greeting pattern first,
\* classify_intent for every other query
classify(query, cls) ==
    IF greeting_patterns_match(query)
    THEN [intent |-> "general", generates |-> 0, calls |-> 0]
    ELSE classify_intent(query, cls)

(***************************************************************************)
(* The two memory tiers (core/memory.py)                                   *)
(***************************************************************************)

Sessions == {"s1", "s2"}

\* st.session_state.user['username'] of the browser session
UserOf(session_id) == IF session_id = "s1" THEN "alice" ELSE "bob"

\* SessionMemory.get_history
session_get_history(sessions, session_id) == sessions[session_id]

\* the turn SessionMemory.add_turn appends
SessionTurn(query, response) ==
    [user |-> query, assistant |-> response, timestamp |-> LocalNow]

\* a session tier that keeps the first turns and drops the new one
Mut_SessionMemory_add_turn(self_max_turns, sessions, session_id, query, response) ==
    LET window == Append(sessions[session_id], SessionTurn(query, response))
    IN  [sessions EXCEPT ![session_id] =
            IF Len(window) > self_max_turns
            THEN SubSeq(window, 1, self_max_turns)
            ELSE window]

\* SessionMemory.add_turn of an instance built with max_turns =
\* self_max_turns: append, then keep the last self_max_turns
SessionMemory_add_turn(self_max_turns, sessions, session_id, query, response) ==
    LET window == Append(sessions[session_id], SessionTurn(query, response))
    IN  [sessions EXCEPT ![session_id] =
            IF Len(window) > self_max_turns
            THEN SubSeq(window, Len(window) - self_max_turns + 1, Len(window))
            ELSE window]

\* SessionMemory.add_turn of the singleton of get_session_memory()
session_add_turn(sessions, session_id, query, response) ==
    SessionMemory_add_turn(max_turns, sessions, session_id, query, response)

\* a join that writes the chunks last to first
RECURSIVE Mut_join_chunks(_)
Mut_join_chunks(context_chunks) ==
    IF context_chunks = <<>> THEN <<>>
    ELSE IF Len(context_chunks) = 1 THEN context_chunks
    ELSE Mut_join_chunks(Tail(context_chunks)) \o <<"|", Head(context_chunks)>>

\* "|".join(context_chunks) if context_chunks else "": the text as the
\* sequence of its pieces, the chunks and the delimiters between them
RECURSIVE join_chunks(_)
join_chunks(context_chunks) ==
    IF context_chunks = <<>> THEN <<>>
    ELSE IF Len(context_chunks) = 1 THEN context_chunks
    ELSE <<Head(context_chunks), "|">> \o join_chunks(Tail(context_chunks))

\* ConversationMemory.add_turn: one INSERT; the chunks are stored joined by
\* "|", the timestamp is CURRENT_TIMESTAMP
conversation_add_turn(rows, session_id, user_id, query, response, intent, context_chunks) ==
    Append(rows, [id |-> Len(rows) + 1, session_id |-> session_id,
                  user_id |-> user_id, query |-> query, response |-> response,
                  intent |-> intent, context_chunks |-> join_chunks(context_chunks),
                  timestamp |-> clock])

\* the row an ORDER BY timestamp DESC answers first: a reverse scan of
\* idx_session(session_id, timestamp), whose entries of one timestamp are in
\* rowid order
NewestFirst(r, o) ==
    r.timestamp > o.timestamp \/ (r.timestamp = o.timestamp /\ r.id >= o.id)

\* a sort that leaves the rows of one timestamp in rowid order
Mut_ScansBefore(r, o) ==
    r.timestamp > o.timestamp \/ (r.timestamp = o.timestamp /\ r.id <= o.id)

ScansBefore(r, o) == NewestFirst(r, o)

\* the rows of a set, in the order of the scan
RECURSIVE order_by_timestamp_desc(_)
order_by_timestamp_desc(S) ==
    IF S = {} THEN <<>>
    ELSE LET top == CHOOSE r \in S : \A o \in S : ScansBefore(r, o)
         IN  <<top>> \o order_by_timestamp_desc(S \ {top})

\* the dict get_history makes of a row
HistoryTurn(row) ==
    [user |-> row.query, assistant |-> row.response, intent |-> row.intent,
     timestamp |-> row.timestamp]

\* ConversationMemory.get_history: the first `limit` rows of the session by
\* timestamp descending, reversed
conversation_get_history(rows, session_id, limit) ==
    LET mine == {rows[i] : i \in {j \in 1..Len(rows) : rows[j].session_id = session_id}}
        desc == order_by_timestamp_desc(mine)
        got == SubSeq(desc, 1, Min(limit, Len(desc)))
    IN  [i \in 1..Len(got) |-> HistoryTurn(got[Len(got) - i + 1])]

\* a clear that empties the window of every session
Mut_session_clear_session(sessions, session_id) ==
    [s \in DOMAIN sessions |-> <<>>]

\* SessionMemory.clear_session: the session's key is deleted, and
\* get_history answers [] for it
session_clear_session(sessions, session_id) ==
    [sessions EXCEPT ![session_id] = <<>>]

\* ConversationMemory.get_session_summary: two SELECTs
conversation_get_session_summary(rows, session_id) ==
    LET mine == {i \in 1..Len(rows) : rows[i].session_id = session_id}
        stamps == {rows[i].timestamp : i \in mine}
    IN  [session_id |-> session_id,
         total_turns |-> Cardinality(mine),
         start_time |-> IF mine = {} THEN None
                        ELSE CHOOSE t \in stamps : \A o \in stamps : t <= o,
         end_time |-> IF mine = {} THEN None
                      ELSE CHOOSE t \in stamps : \A o \in stamps : t >= o,
         intents |-> [intent \in {rows[i].intent : i \in mine} |->
                         Cardinality({i \in mine : rows[i].intent = intent})]]

InitMemory ==
    /\ session_memory = [session_id \in Sessions |-> <<>>]
    /\ conversations = <<>>
    /\ chat_history = [session_id \in Sessions |-> <<>>]
    /\ app_call = [n |-> 0]

NoFnCall == [op |-> "none"]

(***************************************************************************)
(* The orchestrator (agents/orchestrator.py)                               *)
(***************************************************************************)

\* AdminAgent.query: not understood, answered, or the query failed; the
\* dict it returns has no sources and no context_chunks. _get_schema runs
\* before the try: a database that cannot be read makes query raise.
admin_query(user_query, outcome) ==
    [raised |-> outcome = "schema failed",
     answer |-> Answer("admin", outcome), sources |-> <<>>, context_chunks |-> <<>>]

\* the prompt of _handle_general_query
GeneralPrompt(query) == [general |-> query]

\* AgentOrchestrator._handle_general_query
handle_general_query(query, history, env) ==
    LET g == generate(GeneralPrompt(query), env.script, env.text)
    IN  [answer |-> g.answer, sources |-> <<>>, context_chunks |-> <<>>]

\* AgentOrchestrator._route_to_agent, with the defaults of the later
\* response.get(...) filled in; `qa` is the QAAgent.answer call made, if any
route_to_agent(query, intent, history, env) ==
    IF intent = "qa"
    THEN LET out == answer(query, history, NoFilter, env)
         IN  [response |-> [answer |-> out.response.answer,
                            sources |-> out.response.sources,
                            context_chunks |-> out.response.context_chunks],
              qa |-> <<out>>, raised |-> FALSE]
    ELSE IF intent = "admin"
    THEN LET out == admin_query(query, env.admin)
         IN  [response |-> [answer |-> out.answer, sources |-> out.sources,
                            context_chunks |-> out.context_chunks],
              qa |-> <<>>, raised |-> out.raised]
    ELSE [response |-> handle_general_query(query, history, env), qa |-> <<>>,
          raised |-> FALSE]

\* AgentOrchestrator.process_query, lines 83-106: the intent, the dict
\* returned, the two tiers after the call, and whether the agent or the
\* durable write raised. The session tier is written before the durable
\* tier, and nothing is undone when the later write raises.
store_turn(session_id, user_id, query, intent, history, routed, store) ==
    [intent |-> intent,
     history |-> history,
     qa |-> routed.qa,
     sessions |-> IF routed.raised THEN session_memory
                  ELSE session_add_turn(session_memory, session_id, query,
                                        routed.response.answer),
     raised |-> routed.raised \/ store = "raise",
     failed |-> IF routed.raised THEN "agent"
                ELSE IF store = "raise" THEN "store" ELSE None,
     context_chunks |-> routed.response.context_chunks,
     rows |-> IF routed.raised \/ store = "raise" THEN conversations
              ELSE conversation_add_turn(conversations, session_id, user_id,
                                         query, routed.response.answer, intent,
                                         routed.response.context_chunks),
     result |-> [answer |-> routed.response.answer, intent |-> intent,
                 sources |-> routed.response.sources]]

\* AgentOrchestrator.process_query, lines 69-81: the history is read, the
\* intent classified and the query routed
route(query, intent, history, env) ==
    [intent |-> intent, history |-> history,
     routed |-> route_to_agent(query, intent, history, env)]

process_query(session_id, user_id, query, env) ==
    \* the one element of the set is bound, and so computed, once
    CHOOSE pq \in {store_turn(session_id, user_id, query, r.intent, r.history,
                              r.routed, env.store) :
                      r \in {route(query, classify(query, env.cls).intent,
                                   session_get_history(session_memory, session_id),
                                   env)}} : TRUE

(***************************************************************************)
(* The chat input handler (app.py)                                         *)
(***************************************************************************)

\* `if cached_response:` -- None and the empty string are false
Truthy(response) ==
    /\ response # NoAnswer
    /\ ~(response.kind = "generated" /\ response.text = "")

UserMessage(content) == [role |-> "user", content |-> content, sources |-> <<>>]

AssistantMessage(content, sources) ==
    [role |-> "assistant", content |-> content, sources |-> sources]

\* app.py lines 137-178: one run of the handler for a question typed into
\* browser session `session_id`
Chat(session_id, user_question, env) ==
    \E pq \in {process_query(session_id, UserOf(session_id), user_question, env)} :
    LET got == cache_get(faq_cache, user_question)
        hit == Truthy(got.ret)
        put == cache_set(got.rows, user_question, pq.result.answer)
        asked == Append(chat_history[session_id], UserMessage(user_question))
        get_call == [op |-> "get", query |-> user_question, response |-> NoAnswer,
                     ret |-> got.ret, repeat |-> FALSE, evicted |-> {}]
    IN  /\ UNCHANGED <<clock, utc_offset, collection, fn_call, proc_vars>>
        /\ IF hit
           THEN /\ faq_cache' = got.rows
                /\ cache_call' = get_call
                /\ chat_history' = [chat_history EXCEPT ![session_id] =
                                       Append(asked, AssistantMessage(got.ret, <<>>))]
                /\ app_call' = [n |-> app_call.n + 1, session_id |-> session_id,
                                query |-> user_question, hit |-> TRUE,
                                routed |-> FALSE, intent |-> None,
                                raised |-> FALSE, answer |-> got.ret]
                /\ UNCHANGED <<cache_seq, qa_call, session_memory, conversations>>
           ELSE /\ session_memory' = pq.sessions
                /\ conversations' = pq.rows
                /\ qa_call' = IF pq.qa = <<>> THEN qa_call
                              ELSE [op |-> "answer", query |-> user_question,
                                    conversation_history |-> pq.history,
                                    document_filter |-> NoFilter, env |-> env,
                                    out |-> pq.qa[1]]
                /\ IF pq.raised
                   THEN /\ faq_cache' = got.rows
                        /\ cache_call' = get_call
                        /\ chat_history' = [chat_history EXCEPT ![session_id] = asked]
                        /\ app_call' = [n |-> app_call.n + 1, session_id |-> session_id,
                                        query |-> user_question, hit |-> FALSE,
                                        routed |-> TRUE, intent |-> pq.intent,
                                        raised |-> TRUE, answer |-> NoAnswer]
                        /\ UNCHANGED cache_seq
                   ELSE /\ faq_cache' = put.rows
                        /\ cache_seq' = IF Ids(put.written) = Ids(got.rows)
                                         THEN cache_seq ELSE cache_seq + 1
                        /\ cache_call' = [op |-> "set", query |-> user_question,
                                          response |-> pq.result.answer,
                                          ret |-> NoAnswer, repeat |-> FALSE,
                                          evicted |-> put.written \ put.rows]
                        /\ chat_history' =
                              [chat_history EXCEPT ![session_id] =
                                  Append(asked, AssistantMessage(pq.result.answer,
                                                                 pq.result.sources))]
                        /\ app_call' = [n |-> app_call.n + 1, session_id |-> session_id,
                                        query |-> user_question, hit |-> FALSE,
                                        routed |-> TRUE, intent |-> pq.intent,
                                        raised |-> FALSE, answer |-> pq.result.answer]

(***************************************************************************)
(* Initial states                                                          *)
(***************************************************************************)

\* the state in which an adapter or a helper is called on its own: an empty
\* cache on a host on UTC, no index, empty memory tiers
InitIdle ==
    /\ faq_cache = {}
    /\ cache_seq = 0
    /\ clock = 0
    /\ utc_offset = 0
    /\ cache_call = NoCall
    /\ collection = {}
    /\ qa_call = NoQaCall
    /\ InitProcess
    /\ InitMemory

\* an empty cache on a host in one of the time zones; no index; no call yet
InitZones ==
    /\ faq_cache = {}
    /\ cache_seq = 0
    /\ clock = 0
    /\ utc_offset \in UtcOffsets
    /\ cache_call = NoCall
    /\ collection = {}
    /\ qa_call = NoQaCall
    /\ InitProcess
    /\ InitMemory
    /\ fn_call = NoFnCall

\* an empty cache on a host on UTC; no index; no call yet
InitCache ==
    /\ faq_cache = {}
    /\ cache_seq = 0
    /\ clock = 0
    /\ utc_offset = 0
    /\ cache_call = NoCall
    /\ collection = {}
    /\ qa_call = NoQaCall
    /\ InitProcess
    /\ InitMemory
    /\ fn_call = NoFnCall

\* an index holding one of the corpora; the cache is not used
InitQA ==
    /\ faq_cache = {}
    /\ cache_seq = 0
    /\ clock = 0
    /\ utc_offset = 0
    /\ cache_call = NoCall
    /\ collection \in Corpora
    /\ qa_call = NoQaCall
    /\ InitProcess
    /\ InitMemory
    /\ fn_call = NoFnCall

\* the bound of a run on the hit counts
HitsBelow(query, hits) ==
    \A row \in RowsOf(faq_cache, hash_query(query)) : row.hit_count < hits

(***************************************************************************)
(* Cache runs: two normal forms, one of them in two spellings, and two     *)
(* responses                                                               *)
(***************************************************************************)

CacheQueries == { <<Lo(1)>>, <<Up(1)>>, <<Lo(1), SPACE, Lo(2)>> }

R1 == Answer("generated", "r1")
R2 == Answer("generated", "r2")

CacheResponses == {R1, R2}

CacheGet == \E query \in CacheQueries : HitsBelow(query, MaxHits) /\ Get(query)

CacheSet ==
    \E query \in CacheQueries, response \in CacheResponses :
        HitsBelow(query, MaxHits) /\ Set(query, response)

CacheTick == clock < ShortClock /\ Tick

NextCache == CacheGet \/ CacheSet \/ CacheTick

SpecCache == InitCache /\ [][NextCache]_vars

(***************************************************************************)
(* Expiry runs: one query, one response, a clock that runs past the TTL    *)
(***************************************************************************)

TtlQueries == { <<Lo(1)>>, <<Lo(2)>> }

TtlGet == \E query \in TtlQueries : HitsBelow(query, MaxHits) /\ Get(query)

TtlSet == \E query \in TtlQueries : HitsBelow(query, MaxHits) /\ Set(query, R1)

TtlTick == clock < MaxClock /\ Tick

NextTtl == TtlGet \/ TtlSet \/ TtlTick

SpecTtl == InitZones /\ [][NextTtl]_vars

(***************************************************************************)
(* Eviction runs: max_size + 5 one-letter queries, as in the eviction      *)
(* property of the specification. The letters are interchangeable, so the  *)
(* k-th row inserted is the one of letter k.                               *)
(***************************************************************************)

LruQueries == { <<Lo(i)>> : i \in 1..(max_size + 5) }

LruGet == \E query \in LruQueries : HitsBelow(query, LruHits) /\ Get(query)

LruSet ==
    \E query \in LruQueries :
        /\ HitsBelow(query, LruHits)
        /\ RowsOf(faq_cache, hash_query(query)) = {} => query = <<Lo(cache_seq + 1)>>
        /\ Set(query, R1)

LruTick == clock < ShortClock /\ Tick

NextLru == LruGet \/ LruSet \/ LruTick

SpecLru == InitCache /\ [][NextLru]_vars

(***************************************************************************)
(* Normalisation runs: one set, then one get, over every string of at most *)
(* MaxLen characters                                                       *)
(***************************************************************************)

Chars == {Lo(1), Up(1), SPACE, TAB}

\* two one-letter words with a run of whitespace between them
TwoWords ==
    {<<a>> \o run \o <<b>> : a \in {Lo(1), Up(1)}, b \in {Lo(1), Up(1)},
                             run \in [1..(MaxLen - 1) -> {SPACE, TAB}]}

Strings == UNION {[1..n -> Chars] : n \in 0..MaxLen} \cup TwoWords

NormSet == \E query \in Strings : cache_call.op = "none" /\ Set(query, R1)

NormGet == \E query \in Strings : cache_call.op = "set" /\ Get(query)

NextNorm == NormSet \/ NormGet

SpecNorm == InitCache /\ [][NextNorm]_vars

(***************************************************************************)
(* Retrieval-agent runs: a call of QAAgent.answer on each of the corpora.   *)
(* The agent keeps no state from one call to the next, so a run makes one  *)
(* call.                                                                   *)
(***************************************************************************)

QaQueries == { <<Lo(1)>>, <<Up(1), SPACE, Lo(2)>> }

T1 == [user |-> <<Lo(1)>>, assistant |-> Answer("generated", "a1")]
T2 == [user |-> <<Lo(2)>>, assistant |-> Answer("no_context", <<Lo(2)>>)]

QaHistories == { <<>>, <<T1>>, <<T1, T2>> }

QaFilters ==
    { NoFilter, Filter(None, None), Filter("academic", None),
      Filter(None, "handbook.pdf"), Filter("forms", None) }

QaAsk ==
    /\ qa_call.op = "none"
    /\ \E query \in QaQueries, conversation_history \in QaHistories,
          document_filter \in QaFilters :
           \E env \in Envs(collection, document_filter) :
               QaAnswer(query, conversation_history, document_filter, env)

NextQA == QaAsk

SpecQA == InitQA /\ [][NextQA]_vars

(***************************************************************************)
(* Application runs: questions typed into two browser sessions that share  *)
(* the cache, the index and the durable log                                *)
(***************************************************************************)

\* an empty cache on a host on UTC, an index of one passage, empty tiers
InitApp ==
    /\ faq_cache = {}
    /\ cache_seq = 0
    /\ clock = 0
    /\ utc_offset = 0
    /\ cache_call = NoCall
    /\ collection = {P1}
    /\ qa_call = NoQaCall
    /\ InitProcess
    /\ InitMemory
    /\ fn_call = NoFnCall

\* a question in two spellings, a greeting and an admin request
AppQueries == { <<Lo(1)>>, <<Up(1), SPACE>>, <<Up(8), Lo(9), BANG>>, ALL_USERS }

\* the provider answers at once, or fails with an error that is not a rate limit
AppScripts == { [i \in 1..max_retries |-> "ok"], [i \in 1..max_retries |-> "500"] }

\* what the classification call answers
ClassifyTexts == { QA, <<SPACE, Up(1)>> \o Tail(ADMIN), GENERAL, <<Lo(24)>> }

AdminOutcomes == {"answered", "not understood", "query failed", "schema failed"}

\* the environment of a handler run that calls none of the collaborators
QuietEnv ==
    [cls |-> [script |-> [i \in 1..max_retries |-> "ok"], text |-> QA],
     embed |-> "ok", index |-> "ok", ranked |-> <<>>,
     script |-> [i \in 1..max_retries |-> "ok"], text |-> "a1",
     admin |-> "answered", store |-> "ok"]

\* what the classification call of a handler run can do: nothing when a fast
\* path decides, else answer one of the texts or fail
ClsEnvs(user_question) ==
    IF greeting_patterns_match(user_question)
       \/ classify_intent(user_question, QuietEnv.cls).calls = 0
    THEN {QuietEnv.cls}
    ELSE {cls \in [script : AppScripts, text : ClassifyTexts] :
             cls.script[1] # "ok" => cls.text = QA}

\* what the agent the run is routed to can meet
RouteEnvs(intent) ==
    IF intent = "qa"
    THEN {env \in [cls : {QuietEnv.cls}, embed : {"ok"}, index : {"ok", "raise"},
                   ranked : Rankings(collection, TOP_K_RESULTS),
                   script : AppScripts, text : {"a1", ""},
                   admin : {"answered"}, store : {"ok", "raise"}] :
             /\ env.index = "raise" => env.script[1] = "ok"
             /\ env.index = "raise" \/ env.script[1] # "ok" => env.text = "a1"}
    ELSE IF intent = "admin"
    THEN {env \in {[QuietEnv EXCEPT !.admin = outcome, !.store = store] :
                       outcome \in AdminOutcomes, store \in {"ok", "raise"}} :
             env.admin = "schema failed" => env.store = "ok"}
    ELSE {env \in [cls : {QuietEnv.cls}, embed : {"ok"}, index : {"ok"},
                   ranked : {<<>>}, script : AppScripts, text : {"a1", ""},
                   admin : {"answered"}, store : {"ok", "raise"}] :
             env.script[1] # "ok" => env.text = "a1"}

\* the environments of one handler run: the classification call, the
\* retrieval and generation calls, the admin agent and the durable store.
\* A run answered from the cache calls none of them.
AppEnvs(user_question) ==
    IF Truthy(cache_get(faq_cache, user_question).ret) THEN {QuietEnv}
    ELSE UNION {{[env EXCEPT !.cls = cls] :
                    env \in RouteEnvs(IF greeting_patterns_match(user_question)
                                      THEN "general"
                                      ELSE classify_intent(user_question, cls).intent)} :
                cls \in ClsEnvs(user_question)}

AppChat ==
    /\ app_call.n < MaxChats
    /\ \E session_id \in Sessions, user_question \in AppQueries :
          \E env \in AppEnvs(user_question) :
              Chat(session_id, user_question, env)

NextApp == AppChat

SpecApp == InitApp /\ [][NextApp]_vars

(***************************************************************************)
(* Source-extraction runs: _extract_sources on every list of at most       *)
(* MaxMetas metadatas                                                      *)
(***************************************************************************)

\* metadatas of two files, with and without a document type and a page,
\* metadatas without a source, and the absent metadata
Metas ==
    [source : {"handbook.pdf", "calendar.pdf", None},
     document_type : {"regulations", None}, page : {NoPage, 1, 2}]

MetaLists == UNION {[1..n -> Metas] : n \in 0..MaxMetas}

InitSources ==
    /\ InitIdle
    /\ fn_call \in [op : {"input"}, metadatas : MetaLists]

ExtractSources ==
    /\ fn_call.op = "input"
    /\ fn_call' = [op |-> "extract_sources", metadatas |-> fn_call.metadatas,
                   sources |-> extract_sources(fn_call.metadatas)]
    /\ UNCHANGED state_vars

NextSources == ExtractSources

SpecSources == InitSources /\ [][NextSources]_vars

(***************************************************************************)
(* Generation runs: one generate against every provider that answers,      *)
(* signals a rate limit or fails at each of max_retries + 1 attempts       *)
(***************************************************************************)

RetryScripts == [1..(max_retries + 1) -> {"ok", "429", "500"}]

InitGenerate ==
    /\ InitIdle
    /\ fn_call \in [op : {"input"}, fn : {"generate"}, script : RetryScripts,
                    text : {"a1", ""}]

Generate ==
    /\ fn_call.op = "input"
    /\ fn_call.fn = "generate"
    /\ fn_call' = [op |-> "generate", script |-> fn_call.script,
                   out |-> generate("prompt", fn_call.script, fn_call.text)]
    /\ UNCHANGED state_vars

NextGenerate == Generate

SpecGenerate == InitGenerate /\ [][NextGenerate]_vars

(***************************************************************************)
(* Embedding runs: one batch of at most MaxTexts texts through either      *)
(* adapter. For each text the provider signals some number of rate limits  *)
(* and then answers or fails.                                              *)
(***************************************************************************)

EmbedScripts ==
    {script \in [1..(embed_max_retries + 1) -> {"ok", "429", "500"}] :
        \A i \in 1..embed_max_retries :
           script[i] # "429" => \A j \in (i + 1)..(embed_max_retries + 1) :
                                   script[j] = "ok"}

EmbedTexts == {"t1", "t2"}

EmbedInputs ==
    UNION {[op : {"input"}, fn : {"embed"}, adapter : Adapters,
            input : [1..n -> EmbedTexts], scripts : [1..n -> EmbedScripts]] :
           n \in 0..MaxTexts}

InitEmbed == InitIdle /\ fn_call \in EmbedInputs

Embed ==
    /\ fn_call.op = "input"
    /\ fn_call.fn = "embed"
    /\ fn_call' = [op |-> "embed", adapter |-> fn_call.adapter,
                   input |-> fn_call.input, scripts |-> fn_call.scripts,
                   out |-> embed(fn_call.adapter, fn_call.input, fn_call.scripts)]
    /\ UNCHANGED state_vars

NextEmbed == Embed

SpecEmbed == InitEmbed /\ [][NextEmbed]_vars

(***************************************************************************)
(* Index runs: one query of the vector store                               *)
(***************************************************************************)

\* what one query of the index `docs` under `document_filter` can meet: the
\* embedding client or the index raising, and the ranking the index answers
StoreEnvs(docs, document_filter) ==
    [embed : {"ok", "raise"}, index : {"ok", "raise"},
     ranked : Rankings(Matching(docs, WhereOf(document_filter)), TOP_K_RESULTS)]

StoreInputs(docs) ==
    UNION { [op : {"input"}, fn : {"query"}, query_text : QaQueries,
             document_filter : {f}, env : StoreEnvs(docs, f)] : f \in QaFilters }

InitStore ==
    /\ faq_cache = {}
    /\ cache_seq = 0
    /\ clock = 0
    /\ utc_offset = 0
    /\ cache_call = NoCall
    /\ collection \in Corpora
    /\ qa_call = NoQaCall
    /\ InitProcess
    /\ InitMemory
    /\ fn_call \in StoreInputs(collection)

\* VectorStore.query, or VectorStore.query_with_filter when a filter is given
Query ==
    /\ fn_call.op = "input"
    /\ fn_call.fn = "query"
    /\ fn_call' = [op |-> "query", query_text |-> fn_call.query_text,
                   document_filter |-> fn_call.document_filter, env |-> fn_call.env,
                   out |-> retrieve(fn_call.query_text, fn_call.document_filter,
                                    fn_call.env)]
    /\ UNCHANGED state_vars

NextStore == Query

SpecStore == InitStore /\ [][NextStore]_vars

(***************************************************************************)
(* Router runs: one query classified by process_query                      *)
(***************************************************************************)

\* what precedes, what is, and what follows the word of a query
RouterPrefixes == { <<>>, <<SPACE>>, <<Lo(1), SPACE>> }

RouterWords ==
    { HI, <<Up(8), Up(9)>>, <<Up(2)>> \o Tail(BONJOUR), HELP, ALL_USERS,
      <<Up(1), Up(12), Up(12), SPACE, Up(21)>> \o SubSeq(ALL_USERS, 6, 9),
      <<Lo(1)>>, QA }

RouterSuffixes == { <<>>, <<BANG>>, <<BANG, SPACE>>, <<SPACE, Lo(1)>> }

RouterQueries ==
    { p \o w \o x : p \in RouterPrefixes, w \in RouterWords, x \in RouterSuffixes }

\* the provider answers at the first, second or third attempt, or fails
RouterScripts ==
    { <<"ok", "ok", "ok">>, <<"429", "ok", "ok">>, <<"429", "429", "ok">>,
      <<"429", "429", "429">>, <<"500", "ok", "ok">> }

InitRouter ==
    /\ InitIdle
    /\ fn_call \in [op : {"input"}, fn : {"classify"}, query : RouterQueries,
                    cls : [script : RouterScripts, text : ClassifyTexts]]

Classify ==
    /\ fn_call.op = "input"
    /\ fn_call.fn = "classify"
    /\ fn_call' = [op |-> "classify", query |-> fn_call.query, cls |-> fn_call.cls,
                   out |-> classify(fn_call.query, fn_call.cls)]
    /\ UNCHANGED state_vars

NextRouter == Classify

SpecRouter == InitRouter /\ [][NextRouter]_vars

(***************************************************************************)
(* Backoff runs: one generate or one batch of embeddings                   *)
(***************************************************************************)

InitBackoff == InitGenerate \/ InitEmbed

NextBackoff == Generate \/ Embed

SpecBackoff == InitBackoff /\ [][NextBackoff]_vars

(***************************************************************************)
(* Session tier runs: turns added to the windows of two sessions           *)
(***************************************************************************)

SessionQueries == { <<Lo(1)>>, <<Lo(2)>> }

\* a SessionMemory built with a window of 1..MaxWindow turns; fn_call.added
\* is every turn added to each session so far
InitSession ==
    /\ InitIdle
    /\ fn_call \in [op : {"session"}, max_turns : 1..MaxWindow,
                    added : {[session_id \in Sessions |-> <<>>]}]

SessionAddTurn ==
    /\ fn_call.op = "session"
    /\ \E session_id \in Sessions, query \in SessionQueries :
          /\ Len(fn_call.added[session_id]) < MaxAdds
          /\ session_memory' =
                SessionMemory_add_turn(fn_call.max_turns, session_memory,
                                       session_id, query, Answer("generated", "a1"))
          /\ fn_call' = [fn_call EXCEPT !.added[session_id] =
                            Append(@, SessionTurn(query, Answer("generated", "a1")))]
    /\ UNCHANGED <<cache_vars, qa_vars, conversations, chat_history, app_call, proc_vars>>

NextSession == SessionAddTurn

SpecSession == InitSession /\ [][NextSession]_vars

(***************************************************************************)
(* Durable tier runs: turns appended to the log, then one read             *)
(***************************************************************************)

InitDurable == InitIdle /\ fn_call = NoFnCall

\* one INSERT; the store stamps it with the second of its clock
DurableAddTurn ==
    /\ fn_call.op = "none"
    /\ Len(conversations) < MaxLogged
    /\ \E session_id \in Sessions, query \in SessionQueries :
          conversations' =
             conversation_add_turn(conversations, session_id, UserOf(session_id),
                                   query, Answer("generated", "a1"), "qa", <<>>)
    /\ UNCHANGED <<cache_vars, qa_vars, session_memory, chat_history, app_call, fn_call,
                 proc_vars>>

\* a second passes
DurableTick ==
    /\ fn_call.op = "none"
    /\ clock < ShortClock
    /\ clock' = clock + 1
    /\ UNCHANGED <<faq_cache, cache_seq, utc_offset, cache_call, qa_vars, app_vars,
                 fn_call, proc_vars>>

DurableGetHistory ==
    /\ fn_call.op = "none"
    /\ \E session_id \in Sessions, limit \in 0..MaxLimit :
          fn_call' = [op |-> "get_history", session_id |-> session_id,
                      limit |-> limit,
                      out |-> conversation_get_history(conversations, session_id, limit)]
    /\ UNCHANGED state_vars

NextDurable == DurableAddTurn \/ DurableTick \/ DurableGetHistory

SpecDurable == InitDurable /\ [][NextDurable]_vars

(***************************************************************************)
(* Mode runs: add_documents and query calls on one vector store, in turn   *)
(***************************************************************************)

InitModes == InitIdle /\ fn_call = [op |-> "none", n |-> 0]

\* add_documents of one passage that is not in the index
ModeAdd ==
    /\ fn_call.n < MaxStoreCalls
    /\ \E d \in {P1, P2, P3} \ collection :
          LET out == add_documents_mode(document_mode, collection_loaded)
          IN  /\ collection' = collection \cup {d}
              /\ document_mode' = out.document_mode
              /\ collection_loaded' = out.collection_loaded
              /\ fn_call' = [op |-> "add_documents", n |-> fn_call.n + 1,
                             before |-> fn_call.op, text |-> d.text,
                             task |-> out.task]
    /\ UNCHANGED <<cache_vars, qa_call, app_vars, embed_threads, cache_callers, add_turn_calls>>

\* a query that the embedding client and the index answer
ModeQuery ==
    /\ fn_call.n < MaxStoreCalls
    /\ \E query_text \in QaQueries, embedder \in QueryEmbedders :
          LET out == query_mode(document_mode, collection_loaded, embedder)
          IN  /\ document_mode' = out.document_mode
              /\ collection_loaded' = out.collection_loaded
              /\ fn_call' = [op |-> "query", n |-> fn_call.n + 1,
                             before |-> fn_call.op, text |-> query_text,
                             embedder |-> embedder, task |-> out.task]
    /\ UNCHANGED <<cache_vars, qa_vars, app_vars, embed_threads, cache_callers, add_turn_calls>>

NextModes == ModeAdd \/ ModeQuery

SpecModes == InitModes /\ [][NextModes]_vars

(***************************************************************************)
(* Thread runs: embed_documents and embed_query calls of two threads on    *)
(* the shared instance, interleaved statement by statement                 *)
(***************************************************************************)

InitThreads == InitIdle /\ fn_call = NoFnCall

EmbedOps == {"embed_documents", "embed_query"}

\* original_mode = self.document_mode
ThreadSave(t) ==
    /\ embed_threads[t].pc \in {"idle", "returned"}
    /\ \E op \in EmbedOps :
          embed_threads' = [embed_threads EXCEPT ![t] =
                               [pc |-> "saved", op |-> op,
                                original_mode |-> document_mode]]
    /\ UNCHANGED <<document_mode, collection_loaded, cache_callers, add_turn_calls>>

\* self.document_mode = True, or False in embed_query
ThreadSet(t) ==
    /\ embed_threads[t].pc = "saved"
    /\ document_mode' = (embed_threads[t].op = "embed_documents")
    /\ embed_threads' = [embed_threads EXCEPT ![t].pc = "set"]
    /\ UNCHANGED <<collection_loaded, cache_callers, add_turn_calls>>

\* embeddings = self(texts): __call__ reads the mode for its task
ThreadCall(t) ==
    /\ embed_threads[t].pc = "set"
    /\ embed_threads' = [embed_threads EXCEPT ![t] =
                            [pc |-> "called", op |-> @.op,
                             original_mode |-> @.original_mode,
                             task |-> task_of(document_mode)]]
    /\ UNCHANGED <<document_mode, collection_loaded, cache_callers, add_turn_calls>>

\* self.document_mode = original_mode; return embeddings
ThreadRestore(t) ==
    /\ embed_threads[t].pc = "called"
    /\ document_mode' = embed_threads[t].original_mode
    /\ embed_threads' = [embed_threads EXCEPT ![t] =
                            [pc |-> "returned", op |-> @.op, task |-> @.task]]
    /\ UNCHANGED <<collection_loaded, cache_callers, add_turn_calls>>

ThreadStep ==
    /\ \E t \in Threads :
          ThreadSave(t) \/ ThreadSet(t) \/ ThreadCall(t) \/ ThreadRestore(t)
    /\ UNCHANGED <<cache_vars, qa_vars, app_vars, fn_call>>

NextThreads == ThreadStep

SpecThreads == InitThreads /\ [][NextThreads]_vars

(***************************************************************************)
(* Race runs: two callers run get, generate, set for one normalized query  *)
(* on a shared cache, interleaved statement by statement                   *)
(***************************************************************************)

InitRace == InitIdle /\ fn_call = NoFnCall

WarmQueries == { <<Lo(1)>>, <<Lo(2)>>, <<Lo(4)>> }

\* two spellings of one question, and the answer each caller generates
QueryOf(t) == IF t = "t1" THEN <<Lo(3)>> ELSE <<SPACE, Up(3)>>

ResponseOf(t) == Answer("generated", t)

\* an entry written before the callers arrive
RaceWarm ==
    /\ fn_call.op = "none"
    /\ cache_seq < MaxWarm
    /\ \E query \in WarmQueries :
          /\ RowsOf(faq_cache, hash_query(query)) = {}
          /\ Set(query, Answer("generated", "r1"))

\* cached_response = faq_cache.get(user_question); fn_call.before is the
\* table the first of the callers found
CallerGet(t) ==
    /\ cache_callers[t].pc = "idle"
    /\ LET got == cache_get(faq_cache, QueryOf(t))
       IN  /\ faq_cache' = got.rows
           /\ cache_callers' = [cache_callers EXCEPT ![t] =
                 [pc |-> IF Truthy(got.ret) THEN "done" ELSE "missed",
                  hit |-> Truthy(got.ret)]]
    /\ fn_call' = IF fn_call.op = "none"
                  THEN [op |-> "race", before |-> faq_cache] ELSE fn_call
    /\ UNCHANGED cache_seq

\* result = orchestrator.process_query(user_question)
CallerGenerate(t) ==
    /\ cache_callers[t].pc = "missed"
    /\ cache_callers' = [cache_callers EXCEPT ![t] =
          [pc |-> "generated", hit |-> FALSE, response |-> ResponseOf(t)]]
    /\ UNCHANGED <<faq_cache, cache_seq, fn_call>>

\* FAQCache.set, lines 116-125: the upsert and its commit
CallerUpsert(t) ==
    /\ cache_callers[t].pc = "generated"
    /\ LET written == upsert(faq_cache, QueryOf(t), cache_callers[t].response)
       IN  /\ faq_cache' = written
           /\ cache_seq' = IF Ids(written) = Ids(faq_cache) THEN cache_seq
                            ELSE cache_seq + 1
    /\ cache_callers' = [cache_callers EXCEPT ![t].pc = "upserted"]
    /\ UNCHANGED fn_call

\* FAQCache._cleanup_if_needed, lines 135-136: SELECT COUNT(*)
CallerCount(t) ==
    /\ cache_callers[t].pc = "upserted"
    /\ cache_callers' = [cache_callers EXCEPT ![t] =
          [pc |-> "counted", hit |-> FALSE, response |-> @.response,
           count |-> Cardinality(faq_cache)]]
    /\ UNCHANGED <<faq_cache, cache_seq, fn_call>>

\* FAQCache._cleanup_if_needed, lines 138-149: the DELETE of the excess the
\* count gave, and its commit
CallerDelete(t) ==
    /\ cache_callers[t].pc = "counted"
    /\ faq_cache' =
          IF cache_callers[t].count > max_size
          THEN faq_cache \ lru_victims(faq_cache, cache_callers[t].count - max_size)
          ELSE faq_cache
    /\ cache_callers' = [cache_callers EXCEPT ![t] =
          [pc |-> "done", hit |-> FALSE, response |-> @.response]]
    /\ UNCHANGED <<cache_seq, fn_call>>

CallerStep ==
    /\ \E t \in Threads :
          \/ CallerGet(t)
          \/ CallerGenerate(t)
          \/ CallerUpsert(t)
          \/ CallerCount(t)
          \/ CallerDelete(t)
    /\ UNCHANGED <<clock, utc_offset, cache_call, qa_vars, app_vars, document_mode,
                   collection_loaded, embed_threads, add_turn_calls>>

NextRace == RaceWarm \/ CallerStep

SpecRace == InitRace /\ [][NextRace]_vars

(***************************************************************************)
(* Machine runs: one QAAgent.answer call, statement by statement           *)
(***************************************************************************)

MachineHistories == { <<>>, <<T1>> }

MachineFilters == { NoFilter, Filter("academic", None), Filter("forms", None) }

\* the query arrives; qa_call.trace is the states the call has been in
MachineReceive ==
    /\ qa_call.op = "none"
    /\ \E query \in QaQueries, conversation_history \in MachineHistories,
          document_filter \in MachineFilters :
          \E env \in Envs(collection, document_filter) :
             qa_call' = [op |-> "answer", query |-> query,
                         conversation_history |-> conversation_history,
                         document_filter |-> document_filter, env |-> env,
                         state |-> "RECEIVED", trace |-> <<"RECEIVED">>,
                         retrievals |-> 0, attempts |-> 0, results |-> EmptyResult,
                         out |-> None]

\* lines 65-76: the query of the vector store is issued
MachineRetrieve ==
    /\ qa_call.op = "answer"
    /\ qa_call.state = "RECEIVED"
    /\ qa_call' = [qa_call EXCEPT !.state = "RETRIEVING",
                                  !.trace = Append(@, "RETRIEVING"),
                                  !.retrievals = @ + 1]

\* lines 78-96: the query returns and `if passages:` picks the branch, or it
\* raises and the except of lines 109-116 answers
MachineBranch ==
    /\ qa_call.op = "answer"
    /\ qa_call.state = "RETRIEVING"
    /\ LET got == retrieve(qa_call.query, qa_call.document_filter, qa_call.env)
       IN  qa_call' =
              IF got.raised
              THEN [qa_call EXCEPT !.state = "RESPONDED",
                                   !.trace = Append(@, "RESPONDED"),
                                   !.out = on_exception(got.error).response]
              ELSE IF got.results.documents # <<>>
              THEN [qa_call EXCEPT !.state = "GROUNDED",
                                   !.trace = Append(@, "GROUNDED"),
                                   !.results = got.results]
              ELSE [qa_call EXCEPT !.state = "UNGROUNDED",
                                   !.trace = Append(@, "UNGROUNDED"),
                                   !.results = got.results]

\* lines 86-95 with _call_with_retry: one attempt of the generation
\* provider; a rate limit before the last attempt sleeps and tries again,
\* any other outcome ends the generation and the answer is returned
MachineAttempt ==
    /\ qa_call.op = "answer"
    /\ qa_call.state = "GROUNDED"
    /\ LET attempt == qa_call.attempts
           outcome == qa_call.env.script[attempt + 1]
       IN  qa_call' =
              IF outcome = "429" /\ attempt < max_retries - 1
              THEN [qa_call EXCEPT !.attempts = @ + 1]
              ELSE [qa_call EXCEPT
                       !.attempts = @ + 1,
                       !.state = "RESPONDED",
                       !.trace = Append(@, "RESPONDED"),
                       !.out = grounded(qa_call.query, qa_call.conversation_history,
                                        qa_call.results, qa_call.env).response]

\* lines 96-108: the fixed answer of the branch without passages
MachineFallback ==
    /\ qa_call.op = "answer"
    /\ qa_call.state = "UNGROUNDED"
    /\ qa_call' = [qa_call EXCEPT
                      !.state = "RESPONDED",
                      !.trace = Append(@, "RESPONDED"),
                      !.out = ungrounded(qa_call.query, qa_call.conversation_history,
                                         qa_call.results, qa_call.env).response]

MachineStep ==
    /\ \/ MachineReceive
       \/ MachineRetrieve
       \/ MachineBranch
       \/ MachineAttempt
       \/ MachineFallback
    /\ UNCHANGED <<collection, cache_vars, app_vars, fn_call, proc_vars>>

NextMachine == MachineStep

SpecMachine == InitQA /\ [][NextMachine]_vars

\* the call runs on: a statement that can be executed is executed
SpecMachineLive == SpecMachine /\ WF_vars(NextMachine)

(***************************************************************************)
(* Prompt runs: one generate_with_context call                             *)
(***************************************************************************)

PromptQueries == { <<Lo(1)>>, <<Lo(1), SPACE, Lo(2)>> }

PassageTexts == {"p1", "p2"}

PromptPassages == UNION {[1..n -> PassageTexts] : n \in 0..MaxPassages}

\* a history of n turns, the i-th asking <<"turn", i>>
HistoryOf(n) ==
    [i \in 1..n |-> [user |-> << <<"turn", i>> >>,
                     assistant |-> Answer("generated", "a1")]]

InitPrompt ==
    /\ InitIdle
    /\ fn_call \in [op : {"input"}, fn : {"generate_with_context"},
                    query : PromptQueries, context_passages : PromptPassages,
                    conversation_history : {HistoryOf(n) : n \in 0..MaxHistory}]

\* the provider answers at once; out.assembled is the prompt before the
\* truncation, out.sent the prompt handed to generate
PromptCall ==
    /\ fn_call.op = "input"
    /\ fn_call.fn = "generate_with_context"
    /\ fn_call' =
          [op |-> "generate_with_context", query |-> fn_call.query,
           context_passages |-> fn_call.context_passages,
           conversation_history |-> fn_call.conversation_history,
           out |-> [assembled |-> assemble_prompt(fn_call.query,
                                                  fn_call.context_passages,
                                                  fn_call.conversation_history,
                                                  system_prompt),
                    sent |-> generate_with_context(
                                fn_call.query, fn_call.context_passages,
                                fn_call.conversation_history, system_prompt,
                                [i \in 1..max_retries |-> "ok"], "a1").prompt]]
    /\ UNCHANGED state_vars

NextPrompt == PromptCall

SpecPrompt == InitPrompt /\ [][NextPrompt]_vars

(***************************************************************************)
(* Accessor runs: questions of two sessions, and calls of clear_session    *)
(* and get_session_summary of their orchestrators                          *)
(***************************************************************************)

InitAccessors == InitIdle /\ fn_call = [op |-> "none", n |-> 0]

\* a greeting and an admin request: answered without the index
AccessorQueries == { <<Up(8), Lo(9), BANG>>, ALL_USERS }

AccessorChat ==
    /\ app_call.n < MaxChats
    /\ \E session_id \in Sessions, user_question \in AccessorQueries :
          \E env \in {x \in AppEnvs(user_question) :
                         x.store = "ok" /\ x.script[1] = "ok" /\ x.text = "a1"} :
              Chat(session_id, user_question, env)

\* AgentOrchestrator.clear_session of the orchestrator of a session
ClearSession ==
    /\ fn_call.n < MaxAccessorCalls
    /\ \E session_id \in Sessions :
          /\ session_memory' = session_clear_session(session_memory, session_id)
          /\ fn_call' = [op |-> "clear_session", n |-> fn_call.n + 1,
                         session_id |-> session_id, out |-> None]
    /\ UNCHANGED <<cache_vars, qa_vars, conversations, chat_history, app_call, proc_vars>>

\* AgentOrchestrator.get_session_summary of the orchestrator of a session
GetSessionSummary ==
    /\ fn_call.n < MaxAccessorCalls
    /\ \E session_id \in Sessions :
          fn_call' = [op |-> "get_session_summary", n |-> fn_call.n + 1,
                      session_id |-> session_id,
                      out |-> conversation_get_session_summary(conversations,
                                                               session_id)]
    /\ UNCHANGED state_vars

NextAccessors == AccessorChat \/ ClearSession \/ GetSessionSummary

SpecAccessors == InitAccessors /\ [][NextAccessors]_vars

(***************************************************************************)
(* Orchestrator runs: process_query called for two sessions that share the *)
(* two memory tiers and an index of two passages                           *)
(***************************************************************************)

InitOrch ==
    /\ faq_cache = {}
    /\ cache_seq = 0
    /\ clock = 0
    /\ utc_offset = 0
    /\ cache_call = NoCall
    /\ collection = {P1, P2}
    /\ qa_call = NoQaCall
    /\ InitProcess
    /\ InitMemory
    /\ fn_call = [op |-> "none", n |-> 0]

\* a question, a greeting and an admin request
OrchQueries == { <<Lo(1)>>, <<Up(8), Lo(9), BANG>>, ALL_USERS }

\* the provider answers at once, fails with an error that is not a rate
\* limit, or answers every attempt with a rate limit
OrchScripts ==
    { [i \in 1..max_retries |-> "ok"], [i \in 1..max_retries |-> "500"],
      [i \in 1..max_retries |-> "429"] }

\* what the classification call of process_query can do
OrchClsEnvs(query) ==
    IF classify(query, QuietEnv.cls).generates = 0 THEN {QuietEnv.cls}
    ELSE {cls \in [script : OrchScripts, text : {QA, ADMIN, GENERAL, <<Lo(24)>>}] :
             cls.script[1] # "ok" => cls.text = QA}

\* what the agent the call is routed to, and the durable store, can do: the
\* index answers a ranking or fails, the provider answers or fails, the
\* admin database answers or cannot be read, and the durable write of a call
\* that went well this far succeeds or raises
OrchRouteEnvs(intent) ==
    {env \in RouteEnvs(intent) :
        /\ env.text = "a1"
        /\ env.admin \in {"answered", "schema failed"}
        /\ intent # "qa" => env.script[1] = "ok"
        /\ env.store = "raise" =>
              /\ env.index = "ok" /\ env.script[1] = "ok" /\ env.admin = "answered"
              /\ env.ranked \in {<<>>, <<P1, P2>>}}

OrchEnvs(query) ==
    UNION {{[env EXCEPT !.cls = cls] :
               env \in OrchRouteEnvs(classify(query, cls).intent)} :
           cls \in OrchClsEnvs(query)}

\* AgentOrchestrator.process_query of the orchestrator of a session
ProcessQuery ==
    /\ fn_call.n < MaxCalls
    /\ \E session_id \in Sessions, query \in OrchQueries :
          \E env \in OrchEnvs(query) :
             \E pq \in {process_query(session_id, UserOf(session_id), query, env)} :
                 /\ session_memory' = pq.sessions
                 /\ conversations' = pq.rows
                 /\ qa_call' = IF pq.qa = <<>> THEN qa_call
                               ELSE [op |-> "answer", query |-> query,
                                     conversation_history |-> pq.history,
                                     document_filter |-> NoFilter, env |-> env,
                                     out |-> pq.qa[1]]
                 /\ fn_call' = [op |-> "process_query", n |-> fn_call.n + 1,
                                session_id |-> session_id, query |-> query,
                                env |-> env, cls |-> classify(query, env.cls),
                                routed_to_qa |-> pq.qa # <<>>,
                                raised |-> pq.raised, failed |-> pq.failed,
                                result |-> IF pq.raised THEN None ELSE pq.result]
    /\ UNCHANGED <<cache_vars, collection, chat_history, app_call, proc_vars>>

\* time passes between two calls
OrchTick ==
    /\ clock < ShortClock
    /\ clock' = clock + 1
    /\ UNCHANGED <<faq_cache, cache_seq, utc_offset, cache_call, qa_vars, app_vars,
                   fn_call, proc_vars>>

NextOrch == ProcessQuery

SpecOrch == InitOrch /\ [][NextOrch]_vars

\* the same calls, with time passing between them
NextTiers == ProcessQuery \/ OrchTick

SpecTiers == InitOrch /\ [][NextTiers]_vars

(***************************************************************************)
(* Window runs: SessionMemory.add_turn called by two threads for one       *)
(* session. No lock is held; the interpreter can switch threads between    *)
(* the membership test, the creation of the list, the append, the length   *)
(* test, the slice and the store of the slice. The lookup of the list and  *)
(* the append to it are one step here.                                     *)
(***************************************************************************)

RacedSession == "s1"

\* the turns a session holds before the calls: <<"turn", i>> for i = 1..n
EarlierTurns(n) ==
    [i \in 1..n |-> SessionTurn(<< <<"turn", i>> >>, Answer("generated", "a1"))]

\* the session is new, or its window is full
InitWindow ==
    /\ faq_cache = {}
    /\ cache_seq = 0
    /\ clock = 0
    /\ utc_offset = 0
    /\ cache_call = NoCall
    /\ collection = {}
    /\ qa_call = NoQaCall
    /\ document_mode = TRUE
    /\ collection_loaded = FALSE
    /\ embed_threads = [t \in Threads |-> IdleThread]
    /\ cache_callers = [t \in Threads |-> IdleThread]
    /\ conversations = <<>>
    /\ chat_history = [session_id \in Sessions |-> <<>>]
    /\ app_call = [n |-> 0]
    /\ fn_call = NoFnCall
    /\ \E n \in 0..max_turns :
          /\ session_memory = [session_id \in Sessions |->
                                  IF session_id = RacedSession THEN EarlierTurns(n)
                                  ELSE <<>>]
          /\ add_turn_calls = [NoAddTurnCalls EXCEPT !.has_key = n > 0]

\* line 262: if session_id not in self._sessions
AdderCheck(t) ==
    /\ add_turn_calls.at[t].pc = "idle"
    /\ add_turn_calls' =
          [add_turn_calls EXCEPT !.at[t] =
              [pc |-> IF add_turn_calls.has_key THEN "append" ELSE "create"]]
    /\ UNCHANGED <<cache_vars, qa_vars, app_vars, document_mode, collection_loaded,
                   embed_threads, cache_callers, fn_call>>

\* line 263: self._sessions[session_id] = []
AdderCreate(t) ==
    /\ add_turn_calls.at[t].pc = "create"
    /\ session_memory' = [session_memory EXCEPT ![RacedSession] = <<>>]
    /\ add_turn_calls' = [add_turn_calls EXCEPT !.at[t] = [pc |-> "append"],
                                                !.has_key = TRUE]
    /\ UNCHANGED <<cache_vars, qa_vars, conversations, chat_history, app_call,
                   document_mode, collection_loaded, embed_threads, cache_callers,
                   fn_call>>

\* lines 265-269: self._sessions[session_id].append({...})
AdderAppend(t) ==
    /\ add_turn_calls.at[t].pc = "append"
    /\ session_memory' =
          [session_memory EXCEPT ![RacedSession] =
              Append(@, SessionTurn(QueryOf(t), ResponseOf(t)))]
    /\ add_turn_calls' = [add_turn_calls EXCEPT !.at[t] = [pc |-> "len"],
                                                !.appended = Append(@, t)]
    /\ UNCHANGED <<cache_vars, qa_vars, conversations, chat_history, app_call,
                   document_mode, collection_loaded, embed_threads, cache_callers,
                   fn_call>>

\* line 272: if len(self._sessions[session_id]) > self.max_turns
AdderLen(t) ==
    /\ add_turn_calls.at[t].pc = "len"
    /\ add_turn_calls' =
          [add_turn_calls EXCEPT !.at[t] =
              [pc |-> IF Len(session_memory[RacedSession]) > max_turns
                      THEN "slice" ELSE "done"]]
    /\ UNCHANGED <<cache_vars, qa_vars, app_vars, document_mode, collection_loaded,
                   embed_threads, cache_callers, fn_call>>

\* line 273, right-hand side: self._sessions[session_id][-self.max_turns:]
AdderSlice(t) ==
    /\ add_turn_calls.at[t].pc = "slice"
    /\ add_turn_calls' =
          [add_turn_calls EXCEPT !.at[t] =
              [pc |-> "store",
               sliced |-> SubSeq(session_memory[RacedSession],
                                 Len(session_memory[RacedSession]) - max_turns + 1,
                                 Len(session_memory[RacedSession]))]]
    /\ UNCHANGED <<cache_vars, qa_vars, app_vars, document_mode, collection_loaded,
                   embed_threads, cache_callers, fn_call>>

\* line 273, the assignment: self._sessions[session_id] = <the slice>
AdderStore(t) ==
    /\ add_turn_calls.at[t].pc = "store"
    /\ session_memory' =
          [session_memory EXCEPT ![RacedSession] = add_turn_calls.at[t].sliced]
    /\ add_turn_calls' = [add_turn_calls EXCEPT !.at[t] = [pc |-> "done"]]
    /\ UNCHANGED <<cache_vars, qa_vars, conversations, chat_history, app_call,
                   document_mode, collection_loaded, embed_threads, cache_callers,
                   fn_call>>

AdderSteps ==
    \E t \in Threads :
        \/ AdderCheck(t)
        \/ AdderCreate(t)
        \/ AdderAppend(t)
        \/ AdderLen(t)
        \/ AdderSlice(t)
        \/ AdderStore(t)

NextWindow == AdderSteps

SpecWindow == InitWindow /\ [][NextWindow]_vars

(***************************************************************************)
(* Properties of the response cache                                        *)
(***************************************************************************)

UniqueHash(rows) ==
    \A a \in rows, b \in rows : a.query_hash = b.query_hash => a = b

\* the step is a call of FAQCache.set
IsSetStep == clock' = clock /\ cache_call'.op = "set"

\* C2: the cache never holds two rows with one query_hash, and a set(q, r)
\* that directly follows set(q, r) adds no row: the one row of
\* hash(normalize(q)) has its hit_count incremented and holds r.
C2_UniqueHashIdempotentSet ==
    [][/\ UniqueHash(faq_cache')
       /\ IsSetStep /\ cache_call'.repeat =>
             LET query_hash == hash_query(cache_call'.query)
                 before == RowsOf(faq_cache, query_hash)
                 after == RowsOf(faq_cache', query_hash)
             IN  /\ Cardinality(before) = 1
                 /\ Cardinality(after) = 1
                 /\ Ids(faq_cache') = Ids(faq_cache)
                 /\ \A old \in before, new \in after :
                       /\ new.id = old.id
                       /\ new.hit_count = old.hit_count + 1
                       /\ new.response = cache_call'.response]_vars

C2_Witness ==
    /\ cache_call.op = "set"
    /\ cache_call.repeat
    /\ Cardinality(faq_cache) = max_size
    /\ \E row \in RowsOf(faq_cache, hash_query(cache_call.query)) : row.hit_count = 3

\* C3: the cache never holds more than max_size rows; after k distinct
\* queries were inserted into the empty cache it holds min(k, max_size)
\* rows, so exactly max_size after max_size + 5 of them.
C3_SizeCapped ==
    /\ Cardinality(faq_cache) <= max_size
    /\ Cardinality(faq_cache) = Min(cache_seq, max_size)

C3_Witness ==
    /\ cache_seq = max_size + 5
    /\ cache_call.op = "set"
    /\ Cardinality(cache_call.evicted) = 1
    /\ Cardinality(faq_cache) = max_size

\* C4: only a set deletes rows, and every row it deletes was accessed no
\* later than every row it keeps.
C4_EvictsLeastRecent ==
    [][/\ \A row \in faq_cache :
             row.id \notin Ids(faq_cache') =>
                IsSetStep /\ row.id \in Ids(cache_call'.evicted)
       /\ IsSetStep =>
             \A gone \in cache_call'.evicted, kept \in faq_cache' :
                gone.last_accessed <= kept.last_accessed]_vars

\* a row bumped by a later access outlives a row inserted after it
C4_Witness ==
    /\ cache_call.op = "set"
    /\ Cardinality(cache_call.evicted) = 1
    /\ \E row \in faq_cache :
          /\ row.hit_count > 1
          /\ row.query_hash # hash_query(cache_call.query)
          /\ \E id \in (row.id + 1)..cache_seq : id \notin Ids(faq_cache)

\* C5: a get of a query whose row was created more than ttl_hours ago
\* returns None and leaves the table as it was.
C5_ExpiredIsMiss ==
    [][\A query \in TtlQueries :
          Get(query) =>
             \A row \in RowsOf(faq_cache, hash_query(query)) :
                clock - row.created_at > ttl_hours =>
                   cache_call'.ret = NoAnswer /\ faq_cache' = faq_cache]_vars

\* the part of C5 the code keeps on every host: a get that returns None
\* leaves the table as it was
C5_MissIsLazy ==
    [][\A query \in TtlQueries :
          Get(query) /\ cache_call'.ret = NoAnswer => faq_cache' = faq_cache]_vars

\* the normal form of the specification, computed character by character:
\* lowercase, every run of whitespace one space, no space at either end
RECURSIVE Collapse(_, _)
Collapse(s, in_run) ==
    IF s = <<>> THEN <<>>
    ELSE IF IsSpace(Head(s))
         THEN (IF in_run THEN <<>> ELSE <<SPACE>>) \o Collapse(Tail(s), TRUE)
         ELSE <<IF Head(s)[1] = "upper" THEN Lo(Head(s)[2]) ELSE Head(s)>>
              \o Collapse(Tail(s), FALSE)

NormalForm(s) ==
    LET c == Collapse(s, TRUE)
    IN  IF c # <<>> /\ c[Len(c)] = SPACE THEN SubSeq(c, 1, Len(c) - 1) ELSE c

\* C6: a get hits exactly when the table holds a row whose query has the
\* normal form of the query asked for, and then returns that row's response.
C6_KeyedOnNormalForm ==
    cache_call.op = "get" =>
       LET same == {row \in faq_cache : NormalForm(row.query) = NormalForm(cache_call.query)}
       IN  /\ cache_call.ret # NoAnswer <=> same # {}
           /\ \A row \in same : cache_call.ret = row.response /\ row.hit_count = 2

C6_Witness ==
    /\ cache_call.op = "get"
    /\ cache_call.ret = R1
    /\ \E row \in faq_cache :
          /\ row.query # cache_call.query
          /\ Len(row.query) = Len(cache_call.query)
          /\ Len(str_split(row.query)) = 2

\* C7: a get that returns a response returns the one its row holds, adds one
\* to that row's hit_count, sets its last_accessed to now and changes no
\* other row; a get that returns None changes nothing; the response a row
\* holds is the one of the last set of its hash.
C7_GetEffect ==
    [][/\ \A query \in CacheQueries :
             Get(query) =>
                IF cache_call'.ret = NoAnswer THEN faq_cache' = faq_cache
                ELSE \E row \in RowsOf(faq_cache, hash_query(query)) :
                        /\ cache_call'.ret = row.response
                        /\ faq_cache' = (faq_cache \ {row}) \cup
                              {[row EXCEPT !.hit_count = row.hit_count + 1,
                                           !.last_accessed = clock]}
       /\ IsSetStep =>
             \A row \in RowsOf(faq_cache', hash_query(cache_call'.query)) :
                row.response = cache_call'.response]_vars

C7_Witness ==
    /\ cache_call.op = "get"
    /\ cache_call.ret = R2
    /\ Cardinality(faq_cache) = max_size
    /\ \E row \in RowsOf(faq_cache, hash_query(cache_call.query)) :
          /\ row.hit_count = 3
          /\ row.query # cache_call.query
          /\ row.last_accessed > row.created_at

(***************************************************************************)
(* Properties of the retrieval agent                                       *)
(***************************************************************************)

\* the texts of the passages the index ranked for the call, nearest first
RankedTexts == [i \in 1..Len(qa_call.env.ranked) |-> qa_call.env.ranked[i].text]

\* the retrieval of the call came back, with or without passages
RetrievalReturned == qa_call.env.embed = "ok"

NoPassages == qa_call.env.index = "raise" \/ qa_call.env.ranked = <<>>

\* C8: when the retrieval returns no passages, the answer is the apology
\* that quotes the query, sources and context chunks are empty, and neither
\* generate_with_context nor the generation provider was called.
C8_UngroundedFallback ==
    qa_call.op = "answer" /\ RetrievalReturned /\ NoPassages =>
       /\ qa_call.out.response.answer = Answer("no_context", qa_call.query)
       /\ qa_call.out.response.sources = <<>>
       /\ qa_call.out.response.context_chunks = <<>>
       /\ qa_call.out.gwc_calls = <<>>
       /\ qa_call.out.provider_calls = 0

\* an empty index, and an index whose passages the filter shuts out
C8_Witness ==
    /\ qa_call.op = "answer"
    /\ qa_call.env.embed = "ok"
    /\ qa_call.env.index = "ok"
    /\ collection = {}
    /\ qa_call.out.response.answer = Answer("no_context", <<Up(1), SPACE, Lo(2)>>)
    /\ qa_call.out.provider_calls = 0

\* C9: generate_with_context is called exactly when the retrieval returned
\* passages, and then once, with the query, the passages in ranked order,
\* the history the caller supplied and the agent's system prompt.
C9_GroundedIffPassages ==
    qa_call.op = "answer" =>
       /\ qa_call.out.state = "GROUNDED" <=> RetrievalReturned /\ ~NoPassages
       /\ qa_call.out.gwc_calls =
             IF RetrievalReturned /\ ~NoPassages
             THEN <<[query |-> qa_call.query, context_passages |-> RankedTexts,
                     conversation_history |-> qa_call.conversation_history,
                     system_prompt |-> system_prompt]>>
             ELSE <<>>

C9_Witness ==
    /\ qa_call.op = "answer"
    /\ Len(qa_call.out.gwc_calls) = 1
    /\ qa_call.out.gwc_calls[1].context_passages = <<P3.text, P1.text>>
    /\ qa_call.out.gwc_calls[1].conversation_history = <<T1, T2>>
    /\ qa_call.out.provider_calls = max_retries

\* an exception was raised during the retrieval or the generation of the call
RetrievalRaised == qa_call.env.embed = "raise" \/ qa_call.env.index = "raise"

GenerationRaised ==
    /\ RetrievalReturned /\ ~NoPassages
    /\ call_with_retry(qa_call.env.script).raised

\* C10: no exception leaves answer, and whenever the retrieval or the
\* generation raised, the answer is an apology that embeds the error text
\* and sources and context chunks are empty.
C10_ErrorsBecomeEmptyApology ==
    qa_call.op = "answer" =>
       /\ ~qa_call.out.raised
       /\ RetrievalRaised \/ GenerationRaised =>
             /\ qa_call.out.response.answer.kind \in {"qa_error", "llm_error"}
             /\ qa_call.out.response.sources = <<>>
             /\ qa_call.out.response.context_chunks = <<>>

\* what the code keeps of C10: no exception leaves answer, and an exception
\* that reaches answer's own handler is answered with the apology that
\* embeds it, no sources and no chunks
C10_HandlerApology ==
    qa_call.op = "answer" =>
       /\ ~qa_call.out.raised
       /\ qa_call.env.embed = "raise" =>
             /\ qa_call.out.response.answer.kind = "qa_error"
             /\ qa_call.out.response.sources = <<>>
             /\ qa_call.out.response.context_chunks = <<>>

(***************************************************************************)
(* Properties of the source extraction                                     *)
(***************************************************************************)

\* the positions of the metadatas that are present, and the first position
\* at which a file occurs
PresentAt(metadatas) == {i \in 1..Len(metadatas) : metadatas[i] # NoMeta}

FirstAt(metadatas, file) ==
    CHOOSE i \in PresentAt(metadatas) :
        /\ source_of(metadatas[i]) = file
        /\ \A j \in PresentAt(metadatas) : source_of(metadatas[j]) = file => i <= j

\* C11: the sources hold one entry per distinct source of the metadatas, in
\* the order in which the sources first occur, each with the document type
\* and the page of the first metadata of its source.
C11_SourcesDedupFirstSeen ==
    fn_call.op = "extract_sources" =>
       LET metadatas == fn_call.metadatas
           sources == fn_call.sources
           at(k) == FirstAt(metadatas, sources[k].file)
       IN  /\ {sources[k].file : k \in 1..Len(sources)}
                 = {source_of(metadatas[i]) : i \in PresentAt(metadatas)}
           /\ \A k \in 1..Len(sources), l \in 1..Len(sources) :
                 /\ sources[k].file = sources[l].file => k = l
                 /\ k < l => at(k) < at(l)
           /\ \A k \in 1..Len(sources) :
                 /\ sources[k].page = metadatas[at(k)].page
                 /\ sources[k].document_type =
                       IF metadatas[at(k)].document_type = None THEN "general"
                       ELSE metadatas[at(k)].document_type

\* one file on two pages around another file
C11_Witness ==
    /\ fn_call.op = "extract_sources"
    /\ Len(fn_call.metadatas) = 3
    /\ fn_call.metadatas[1].source = "handbook.pdf"
    /\ fn_call.metadatas[2].source = "calendar.pdf"
    /\ fn_call.metadatas[3].source = "handbook.pdf"
    /\ fn_call.metadatas[1].page = 1
    /\ fn_call.metadatas[3].page = 2
    /\ Len(fn_call.sources) = 2
    /\ fn_call.sources[1] = [file |-> "handbook.pdf", document_type |-> "regulations",
                             page |-> 1]

(***************************************************************************)
(* Properties of the generation adapter                                    *)
(***************************************************************************)

\* the provider signalled a rate limit at each of the first n attempts
RateLimitedUpTo(script, n) == \A i \in 1..n : script[i] = "429"

\* C12: one generate makes at most 3 provider calls; every call but the
\* last was rate-limited and the n-th of them was followed by a wait of
\* 15 * n seconds; after a third rate-limited attempt there is no wait and
\* no fourth call.
C12_RateLimitRetries ==
    fn_call.op = "generate" =>
       LET out == fn_call.out IN
       /\ out.calls >= 1 /\ out.calls <= 3
       /\ RateLimitedUpTo(fn_call.script, out.calls - 1)
       /\ out.waits = [n \in 1..(out.calls - 1) |-> 15 * n]
       /\ RateLimitedUpTo(fn_call.script, 3) => out.calls = 3 /\ out.waits = <<15, 30>>

C12_Witness ==
    /\ fn_call.op = "generate"
    /\ fn_call.script = <<"429", "429", "429", "ok">>
    /\ fn_call.out.calls = 3
    /\ fn_call.out.waits = <<15, 30>>

\* C13: when the provider fails the first attempt with an error that is not
\* a rate limit, generate makes that one call, waits for nothing and raises
\* the error to its caller.
C13_OtherErrorPropagates ==
    fn_call.op = "generate" /\ fn_call.script[1] = "500" =>
       /\ fn_call.out.calls = 1
       /\ fn_call.out.waits = <<>>
       /\ fn_call.out.raised
       /\ fn_call.out.error = "500"

\* what the code keeps of C13: the one call and no wait, also when the error
\* follows rate-limited attempts; the error comes back as an apology
C13_OtherErrorNotRetried ==
    fn_call.op = "generate" =>
       \A n \in 1..3 :
          RateLimitedUpTo(fn_call.script, n - 1) /\ fn_call.script[n] = "500" =>
             /\ fn_call.out.calls = n
             /\ Len(fn_call.out.waits) = n - 1
             /\ ~fn_call.out.raised
             /\ fn_call.out.answer = Answer("llm_error", "500")

(***************************************************************************)
(* Properties of the embedding adapters and of the backoff                 *)
(***************************************************************************)

\* C14: a text for which the provider signals a rate limit at 5 consecutive
\* attempts costs exactly 5 provider calls and comes back as the zero
\* vector, and the call raises nothing.
C14_FiveRateLimitsZeroVector ==
    fn_call.op = "embed" =>
       \A i \in 1..Len(fn_call.input) :
          RateLimitedUpTo(fn_call.scripts[i], 5) =>
             /\ ~fn_call.out.raised
             /\ fn_call.out.calls[i] = 5
             /\ fn_call.out.embeddings[i] = ZeroVector

\* what the code keeps of C14: the adapter that retries makes the 5 calls
\* and then fails the batch; the other one makes 1 call and yields the zero
\* vector
C14_FiveCallsOrZeroVector ==
    fn_call.op = "embed" =>
       \A i \in 1..Len(fn_call.input) :
          RateLimitedUpTo(fn_call.scripts[i], 5) =>
             IF fn_call.adapter = "GeminiEmbeddingFunction"
             THEN fn_call.out.raised /\ fn_call.out.calls[i] = 5
             ELSE /\ ~fn_call.out.raised
                  /\ fn_call.out.calls[i] = 1
                  /\ fn_call.out.embeddings[i] = ZeroVector

\* C15: embed raises nothing and returns one vector per text, the i-th
\* being the vector of the i-th text or the zero vector; a text whose first
\* call fails with an error that is not a rate limit costs that one call and
\* comes back as the zero vector.
C15_OneVectorPerText ==
    fn_call.op = "embed" =>
       /\ ~fn_call.out.raised
       /\ Len(fn_call.out.embeddings) = Len(fn_call.input)
       /\ \A i \in 1..Len(fn_call.input) :
             /\ fn_call.out.embeddings[i] \in {Vector(fn_call.input[i]), ZeroVector}
             /\ fn_call.scripts[i][1] = "ok" =>
                   fn_call.out.embeddings[i] = Vector(fn_call.input[i])
             /\ fn_call.scripts[i][1] = "500" =>
                   /\ fn_call.out.calls[i] = 1
                   /\ fn_call.out.embeddings[i] = ZeroVector

\* what the code keeps of C15: it holds of GeminiEmbeddings
C15_GeminiEmbeddingsOneVectorPerText ==
    fn_call.op = "embed" /\ fn_call.adapter = "GeminiEmbeddings" =>
       /\ ~fn_call.out.raised
       /\ Len(fn_call.out.embeddings) = Len(fn_call.input)
       /\ \A i \in 1..Len(fn_call.input) :
             /\ fn_call.out.calls[i] = 1
             /\ fn_call.out.embeddings[i] =
                   IF fn_call.scripts[i][1] = "ok" THEN Vector(fn_call.input[i])
                   ELSE ZeroVector

RECURSIVE SumSeq(_)
SumSeq(seq) == IF seq = <<>> THEN 0 ELSE Head(seq) + SumSeq(Tail(seq))

\* the seconds of backoff of the call: of each text of a batch, of a generate
BackoffWithin(text_seconds, generate_seconds) ==
    /\ fn_call.op = "embed" =>
          \A i \in 1..Len(fn_call.input) : SumSeq(fn_call.out.waits[i]) <= text_seconds
    /\ fn_call.op = "generate" => SumSeq(fn_call.out.waits) <= generate_seconds

\* C16 as stated: the waits of one text add up to at most 150 seconds and
\* those of one generate to at most 30 seconds.
C16_BackoffBounded == BackoffWithin(150, 30)

\* C16 as amended: the waits of one text add up to at most 450 seconds and
\* those of one generate to at most 45 seconds.
C16_BackoffBoundedAmended == BackoffWithin(450, 45)

\* a text that is rate-limited at every attempt: 30 + 60 + 90 + 120 + 150
C16_Witness ==
    /\ fn_call.op = "embed"
    /\ Len(fn_call.input) = 2
    /\ RateLimitedUpTo(fn_call.scripts[2], 5)
    /\ SumSeq(fn_call.out.waits[2]) = 450
    /\ SumSeq(fn_call.out.waits[1]) = 0

(***************************************************************************)
(* Properties of the intent router                                         *)
(***************************************************************************)

\* the query is a greeting for the orchestrator
IsGreeting(query) == greeting_patterns_match(query)

\* the query, lowercased, contains one of the admin keywords
HasAdminKeyword(query) == \E kw \in admin_kw : Contains(str_lower(query), kw)

\* C17: a query matching the greeting patterns is classified general, a
\* query that does not and contains an admin keyword in any case is
\* classified admin, and neither makes a call of the generation provider.
C17_FastPathsCallNothing ==
    fn_call.op = "classify" =>
       /\ IsGreeting(fn_call.query) =>
             /\ fn_call.out.intent = "general"
             /\ fn_call.out.generates = 0
             /\ fn_call.out.calls = 0
       /\ ~IsGreeting(fn_call.query) /\ HasAdminKeyword(fn_call.query) =>
             /\ fn_call.out.intent = "admin"
             /\ fn_call.out.generates = 0
             /\ fn_call.out.calls = 0

\* "help!" is a greeting of the orchestrator that classify_intent would have
\* sent to the model, and the model would have called it admin
C17_Witness ==
    /\ fn_call.op = "classify"
    /\ fn_call.query = HELP \o <<BANG>>
    /\ fn_call.cls.text = <<SPACE, Up(1)>> \o Tail(ADMIN)
    /\ fn_call.out.intent = "general"
    /\ fn_call.out.calls = 0

\* the keyword path: "a ALL Users a" is classified admin without a call
C17_KeywordWitness ==
    /\ fn_call.op = "classify"
    /\ ~IsGreeting(fn_call.query)
    /\ HasAdminKeyword(fn_call.query)
    /\ fn_call.query # str_lower(fn_call.query)
    /\ fn_call.cls.text = GENERAL
    /\ fn_call.out.intent = "admin"
    /\ fn_call.out.calls = 0

\* the output of the model, lowercased and trimmed
Normalized(text) == str_lower(str_strip(text))

\* C18: a query that matches neither the greeting patterns nor an admin
\* keyword makes exactly one call of generate for the classification (one
\* request to the provider, more only after rate limits, never more than
\* max_retries); the intent is the output lowercased and trimmed when that is
\* qa, admin or general, and qa for any other output.
C18_OneCallNormalizedOrQa ==
    fn_call.op = "classify"
    /\ ~IsGreeting(fn_call.query) /\ ~HasAdminKeyword(fn_call.query) =>
       /\ fn_call.out.generates = 1
       /\ fn_call.out.calls \in 1..max_retries
       /\ fn_call.cls.script[1] # "429" => fn_call.out.calls = 1
       /\ fn_call.cls.script[1] = "ok" =>
             fn_call.out.intent =
                IF Normalized(fn_call.cls.text) = QA THEN "qa"
                ELSE IF Normalized(fn_call.cls.text) = ADMIN THEN "admin"
                ELSE IF Normalized(fn_call.cls.text) = GENERAL THEN "general"
                ELSE "qa"
       /\ fn_call.out.intent \in {"qa", "admin", "general"}

\* the model answers " Admin" at once: one call, intent admin
C18_Witness ==
    /\ fn_call.op = "classify"
    /\ ~IsGreeting(fn_call.query) /\ ~HasAdminKeyword(fn_call.query)
    /\ fn_call.cls.script[1] = "ok"
    /\ fn_call.cls.text = <<SPACE, Up(1)>> \o Tail(ADMIN)
    /\ fn_call.out.calls = 1
    /\ fn_call.out.intent = "admin"

\* an output outside the three categories: intent qa
C18_DefaultWitness ==
    /\ fn_call.op = "classify"
    /\ ~IsGreeting(fn_call.query) /\ ~HasAdminKeyword(fn_call.query)
    /\ fn_call.cls.script[1] = "ok"
    /\ fn_call.cls.text = <<Lo(24)>>
    /\ fn_call.out.intent = "qa"

(***************************************************************************)
(* Properties of the vector store                                          *)
(***************************************************************************)

\* the four fields of a result have one length
Aligned(results) ==
    /\ Len(results.metadatas) = Len(results.documents)
    /\ Len(results.distances) = Len(results.documents)
    /\ Len(results.ids) = Len(results.documents)

\* the i-th of each field is of one passage of the index
OfOnePassage(results) ==
    \A i \in 1..Len(results.documents) :
       \E d \in collection :
          /\ d.text = results.documents[i]
          /\ d.metadata = results.metadatas[i]
          /\ d.id = results.ids[i]

QueryFailed == fn_call.env.embed = "raise" \/ fn_call.env.index = "raise"

\* C19: query and query_with_filter raise nothing; on an empty index or a
\* failure of the query the result is the empty one; otherwise the four
\* fields are aligned by position.
C19_QueryNeverRaises ==
    fn_call.op = "query" =>
       /\ ~fn_call.out.raised
       /\ collection = {} \/ QueryFailed => fn_call.out.results = EmptyResult
       /\ Aligned(fn_call.out.results)
       /\ OfOnePassage(fn_call.out.results)

\* what the code keeps of C19: all of it, when get_embedding_function returns
C19_NeverRaisesInsideTry ==
    fn_call.op = "query" /\ fn_call.env.embed = "ok" =>
       /\ ~fn_call.out.raised
       /\ collection = {} \/ QueryFailed => fn_call.out.results = EmptyResult
       /\ Aligned(fn_call.out.results)
       /\ OfOnePassage(fn_call.out.results)

\* C20: an unreachable index is a fault that reaches the caller of query: it
\* is not answered with a result that looks like that of a query that found
\* nothing.
C20_IndexFaultPropagates ==
    fn_call.op = "query" /\ fn_call.env.index = "raise" => fn_call.out.raised

\* what the code does of C20: with the embedding client at hand, an
\* unreachable index answers the empty result and raises nothing
C20_IndexFaultAnswersEmpty ==
    fn_call.op = "query" /\ fn_call.env.embed = "ok" /\ fn_call.env.index = "raise" =>
       ~fn_call.out.raised /\ fn_call.out.results = EmptyResult

(***************************************************************************)
(* Properties of the memory tiers                                          *)
(***************************************************************************)

\* the last n elements of a sequence, all of it when it has fewer
LastN(seq, n) == SubSeq(seq, Len(seq) - Min(n, Len(seq)) + 1, Len(seq))

\* C21: after any sequence of add_turn calls every session's window holds
\* at most max_turns turns, and they are the most recent min(n, max_turns)
\* of the n turns added to that session, oldest first.
C21_SessionWindowIsLastTurns ==
    fn_call.op = "session" =>
       \A session_id \in Sessions :
          /\ Len(session_memory[session_id]) <= fn_call.max_turns
          /\ session_memory[session_id] =
                LastN(fn_call.added[session_id], fn_call.max_turns)

\* a window of 2 after the turns a, b, b: the oldest is gone, b, b remain
C21_Witness ==
    /\ fn_call.op = "session"
    /\ fn_call.max_turns = 2
    /\ Len(fn_call.added["s1"]) = 3
    /\ fn_call.added["s1"][1].user # fn_call.added["s1"][3].user
    /\ fn_call.added["s1"][2].user # fn_call.added["s1"][3].user
    /\ Len(session_memory["s1"]) = 2
    /\ session_memory["s1"][2] = fn_call.added["s1"][3]
    /\ Len(fn_call.added["s2"]) = 1

\* the rows of a session, in the order they were appended
RECURSIVE AppendedTo(_, _)
AppendedTo(rows, session_id) ==
    IF rows = <<>> THEN <<>>
    ELSE IF rows[Len(rows)].session_id = session_id
    THEN Append(AppendedTo(SubSeq(rows, 1, Len(rows) - 1), session_id), rows[Len(rows)])
    ELSE AppendedTo(SubSeq(rows, 1, Len(rows) - 1), session_id)

TaskAskedBy(op) == task_of(op = "embed_documents")

\* no thread is inside an embedding call
Quiescent == \A t \in Threads : embed_threads[t].pc \in {"idle", "returned"}

\* C23: under any interleaving of document-mode and query-mode calls on the
\* shared instance every text is embedded in the mode of its own call, and
\* once every call has returned the instance holds the mode it had before
\* them: no call observed or left behind the mode of another.
C23_ModeIsPerCall ==
    /\ \A t \in Threads :
          embed_threads[t].pc \in {"called", "returned"} =>
             embed_threads[t].task = TaskAskedBy(embed_threads[t].op)
    /\ Quiescent => document_mode = TRUE

\* what the code keeps of C23: a call that runs alone embeds in its own mode
C23_ModeOfCallAlone ==
    \A t \in Threads :
       /\ embed_threads[t].pc = "called"
       /\ \A o \in Threads \ {t} : embed_threads[o].pc = "idle"
       => embed_threads[t].task = TaskAskedBy(embed_threads[t].op)

\* C25: whatever calls preceded it, a query embeds its text in query mode
\* and an add_documents embeds its documents in document mode.
C25_ModeFollowsTheCall ==
    /\ fn_call.op = "query" => fn_call.task = "retrieval_query"
    /\ fn_call.op = "add_documents" => fn_call.task = "retrieval_document"

\* what the code keeps of C25: a query embedded by embed_query is in query
\* mode, so is one by __call__ on a loaded collection, and the first call of
\* a store embeds its documents in document mode; an add_documents after a
\* query on a loaded collection embeds its documents in query mode
C25_ModeOfTheLastSetter ==
    /\ fn_call.op = "query" /\ fn_call.embedder = "embed_query" =>
          fn_call.task = "retrieval_query"
    /\ fn_call.op = "query" /\ fn_call.n > 1 => fn_call.task = "retrieval_query"
    /\ fn_call.op = "add_documents" /\ fn_call.n = 1 =>
          fn_call.task = "retrieval_document"
    /\ fn_call.op = "add_documents" /\ fn_call.before = "query" /\ fn_call.n > 2 =>
          fn_call.task = "retrieval_query"

(***************************************************************************)
(* Properties of concurrent callers of the cache                           *)
(***************************************************************************)

\* both callers missed, generated and finished their set
BothMissedAndDone ==
    \A t \in Threads : cache_callers[t].pc = "done" /\ ~cache_callers[t].hit

RaceHash == hash_query(QueryOf("t1"))

\* C24: once two callers that both missed have finished, the cache holds
\* exactly one entry for the hash, its response is the one one of the two
\* sets wrote, and no other entry was changed or lost.
C24_RaceIsBenign ==
    BothMissedAndDone =>
       /\ Cardinality(RowsOf(faq_cache, RaceHash)) = 1
       /\ \A row \in RowsOf(faq_cache, RaceHash) :
             row.response \in {ResponseOf(t) : t \in Threads}
       /\ \A row \in fn_call.before : row.query_hash # RaceHash => row \in faq_cache

\* what the code keeps of C24: never two entries for the hash, and the
\* response of the entry is one of the two written
C24_AtMostOneEntryOfTheHash ==
    BothMissedAndDone =>
       /\ Cardinality(RowsOf(faq_cache, RaceHash)) <= 1
       /\ \A row \in RowsOf(faq_cache, RaceHash) :
             row.response \in {ResponseOf(t) : t \in Threads}

\* what a set that ran alone would leave: a full cache stays full
C24_EvictsAsOneSet ==
    BothMissedAndDone =>
       Cardinality(faq_cache) >= Min(max_size, Cardinality(fn_call.before) + 1)

(***************************************************************************)
(* Properties of the state machine of a retrieval-agent query              *)
(***************************************************************************)

GroundedPath == <<"RECEIVED", "RETRIEVING", "GROUNDED", "RESPONDED">>

UngroundedPath == <<"RECEIVED", "RETRIEVING", "UNGROUNDED", "RESPONDED">>

IsPrefix(s, t) == Len(s) <= Len(t) /\ s = SubSeq(t, 1, Len(s))

\* C27: a query goes RECEIVED, RETRIEVING, one of GROUNDED and UNGROUNDED,
\* RESPONDED: one retrieval, before any generation, one branch, no state
\* twice.
C27_FollowsTheMachine ==
    qa_call.op = "answer" =>
       /\ IsPrefix(qa_call.trace, GroundedPath) \/ IsPrefix(qa_call.trace, UngroundedPath)
       /\ qa_call.retrievals <= 1
       /\ qa_call.attempts > 0 => qa_call.retrievals = 1 /\ qa_call.state # "RETRIEVING"
       /\ qa_call.state = "RESPONDED" => qa_call.retrievals = 1

\* what the code keeps of C27: all of it while the query of the vector
\* store returns
C27_FollowsTheMachineUnlessRetrievalRaises ==
    qa_call.op = "answer" /\ qa_call.env.embed = "ok" =>
       /\ IsPrefix(qa_call.trace, GroundedPath) \/ IsPrefix(qa_call.trace, UngroundedPath)
       /\ qa_call.retrievals <= 1
       /\ qa_call.attempts > 0 => qa_call.retrievals = 1 /\ qa_call.state # "RETRIEVING"
       /\ qa_call.state = "RESPONDED" =>
             /\ qa_call.retrievals = 1
             /\ qa_call.out = answer(qa_call.query, qa_call.conversation_history,
                                     qa_call.document_filter, qa_call.env).response

\* and a query that is received is responded to, every provider call
\* returning or failing
C27_EventuallyResponded ==
    (qa_call.op = "answer") ~> (qa_call.op = "answer" /\ qa_call.state = "RESPONDED")

(***************************************************************************)
(* Properties of the prompt                                                *)
(***************************************************************************)

\* where a unit stands in a prompt
Positions(prompt, unit) == {i \in 1..Len(prompt) : prompt[i] = unit}

\* the k-th smallest element of a set of numbers
Kth(S, k) == CHOOSE x \in S : Cardinality({y \in S : y < x}) = k - 1

\* C28: the prompt sent is the assembled prompt when that fits the budget,
\* and else its first max_context units followed by the truncation marker;
\* the assembled prompt holds every passage.
C28_TruncatedAfterAssembly ==
    fn_call.op = "generate_with_context" =>
       LET assembled == fn_call.out.assembled
           sent == fn_call.out.sent
       IN  /\ Len(assembled) <= max_context => sent = assembled
           /\ Len(assembled) > max_context =>
                 /\ Len(sent) = max_context + 1
                 /\ SubSeq(sent, 1, max_context) = SubSeq(assembled, 1, max_context)
                 /\ sent[max_context + 1] = TruncationMarker
           /\ \A i \in 1..Len(fn_call.context_passages) :
                 \E pos \in Positions(assembled, RefLabel(i)) :
                    assembled[pos + 1] = Unit(fn_call.context_passages[i])

\* a prompt of exactly the budget goes out as it is
C28_Witness ==
    /\ fn_call.op = "generate_with_context"
    /\ Len(fn_call.out.assembled) = max_context
    /\ fn_call.out.sent = fn_call.out.assembled
    /\ Len(fn_call.context_passages) = 2

\* a prompt over the budget goes out cut, with the marker
C28_TruncatedWitness ==
    /\ fn_call.op = "generate_with_context"
    /\ Len(fn_call.out.assembled) > max_context
    /\ fn_call.out.sent[Len(fn_call.out.sent)] = TruncationMarker
    /\ Len(fn_call.context_passages) = 2

\* C29: the assembled prompt holds one numbered reference for each passage
\* in ranked order, then the last min(n, 5) turns of the history, oldest
\* first, each as a User line followed by its Assistant line, then the
\* question; no turn older than the last 5 is in it.
C29_ReferencesHistoryQuestion ==
    fn_call.op = "generate_with_context" =>
       LET p == fn_call.out.assembled
           k == Len(fn_call.context_passages)
           h == fn_call.conversation_history
           m == Min(Len(h), 5)
           users == Positions(p, Lit("User: "))
           question == Positions(p, Lit("USER QUESTION: "))
           ref(i) == Positions(p, RefLabel(i))
       IN  /\ \A i \in 1..k :
                /\ Cardinality(ref(i)) = 1
                /\ \A pos \in ref(i) : p[pos + 1] = Unit(fn_call.context_passages[i])
                /\ \A j \in 1..k : i < j => \A a \in ref(i), b \in ref(j) : a < b
                /\ \A a \in ref(i), u \in users : a < u
                /\ \A a \in ref(i), q \in question : a < q
           /\ Cardinality({i \in 1..Len(p) : p[i][1] = "[Reference i]: "}) = k
           /\ Cardinality(users) = m
           /\ Cardinality(Positions(p, Lit("Assistant: "))) = m
           /\ \A t \in 1..m :
                LET u == Kth(users, t)
                    turn == h[Len(h) - m + t]
                IN  /\ SubSeq(p, u + 1, u + Len(turn.user)) = turn.user
                    /\ p[u + Len(turn.user) + 1] = NL
                    /\ p[u + Len(turn.user) + 2] = Lit("Assistant: ")
                    /\ p[u + Len(turn.user) + 3] = Unit(turn.assistant)
           /\ \A j \in 1..(Len(h) - m) : Positions(p, <<"turn", j>>) = {}
           /\ Cardinality(question) = 1
           /\ \A q \in question :
                /\ \A u \in users : u < q
                /\ SubSeq(p, q + 1, q + Len(fn_call.query)) = fn_call.query

\* six turns and two passages: the first turn is left out
C29_Witness ==
    /\ fn_call.op = "generate_with_context"
    /\ Len(fn_call.conversation_history) = 6
    /\ Len(fn_call.context_passages) = 2
    /\ fn_call.context_passages[1] # fn_call.context_passages[2]
    /\ Positions(fn_call.out.assembled, <<"turn", 1>>) = {}
    /\ Positions(fn_call.out.assembled, <<"turn", 2>>) # {}

\* an accessor has just been called
Accessed(op) == fn_call'.n = fn_call.n + 1 /\ fn_call'.op = op

\* C30: clear_session empties the window of the calling session and leaves
\* the windows of the other sessions, the durable log and the cache as they
\* were; get_session_summary leaves both tiers and the cache as they were.
C30_AccessorsTouchNothingElse ==
    [][/\ Accessed("clear_session") =>
             /\ session_memory'[fn_call'.session_id] = <<>>
             /\ \A s \in Sessions \ {fn_call'.session_id} :
                   session_memory'[s] = session_memory[s]
             /\ conversations' = conversations
             /\ faq_cache' = faq_cache
             /\ chat_history' = chat_history
       /\ Accessed("get_session_summary") =>
             /\ session_memory' = session_memory
             /\ conversations' = conversations
             /\ faq_cache' = faq_cache
             /\ fn_call'.out.total_turns =
                   Len(AppendedTo(conversations, fn_call'.session_id))]_vars

\* s1 is cleared after both sessions asked: the window of s2, the log and
\* the cache still hold their turns
C30_Witness ==
    /\ fn_call.op = "clear_session"
    /\ fn_call.session_id = "s1"
    /\ Len(AppendedTo(conversations, "s1")) = 1
    /\ session_memory["s1"] = <<>>
    /\ session_memory["s2"] # <<>>
    /\ faq_cache # {}

(***************************************************************************)
(* Properties of the orchestrator                                          *)
(***************************************************************************)

Intents == {"qa", "admin", "general"}

\* the last call of process_query asked the model for the intent and the
\* request failed: the retries met rate limits to the end, or another error
ClassificationFailed ==
    /\ fn_call.op = "process_query"
    /\ fn_call.cls.generates = 1
    /\ call_with_retry(fn_call.env.cls.script).raised

\* C31: the intent process_query returns is one of qa, admin, general; when
\* the classification request fails the query is routed to the retrieval
\* agent and the intent is qa.
C31_IntentIsValidAndFailsOpen ==
    fn_call.op = "process_query" /\ ~fn_call.raised =>
        /\ fn_call.result.intent \in Intents
        /\ ClassificationFailed =>
              fn_call.result.intent = "qa" /\ fn_call.routed_to_qa

\* the retries of the classification call are exhausted by rate limits
C31_Witness ==
    /\ ClassificationFailed
    /\ fn_call.env.cls.script[max_retries] = "429"
    /\ fn_call.cls.calls = max_retries
    /\ ~fn_call.raised
    /\ fn_call.result.intent = "qa"

\* another provider error fails the classification call at once
C31_ErrorWitness ==
    /\ ClassificationFailed
    /\ fn_call.env.cls.script[1] = "500"
    /\ ~fn_call.raised
    /\ fn_call.result.intent = "qa"

\* the chunks of a flattened context_chunks text: the pieces between the
\* delimiters
ChunksOf(flat) ==
    IF flat = <<>> THEN <<>>
    ELSE [i \in 1..((Len(flat) + 1) \div 2) |-> flat[2 * i - 1]]

\* the passages the retrieval of a call answered, nearest first
RetrievedBy(call) ==
    IF call.routed_to_qa /\ call.env.embed = "ok" /\ call.env.index = "ok"
    THEN [i \in 1..Len(call.env.ranked) |-> call.env.ranked[i].text]
    ELSE <<>>

\* C32: a call of process_query that returns appends one turn to the window
\* of its session and one row to the durable log; both carry the query and
\* the answer returned, the row carries the intent returned (qa when the
\* retrieval agent answered) and the retrieved passages in ranked order.
C32_OneTurnInEachTier ==
    [][fn_call'.n = fn_call.n + 1 /\ fn_call'.op = "process_query"
        /\ ~fn_call'.raised =>
          LET s == fn_call'.session_id
              window == session_memory'[s]
              turn == window[Len(window)]
              row == conversations'[Len(conversations')]
          IN  /\ Len(window) >= 1
              /\ turn.user = fn_call'.query
              /\ turn.assistant = fn_call'.result.answer
              /\ window = LastN(Append(session_memory[s], turn), max_turns)
              /\ \A o \in Sessions \ {s} : session_memory'[o] = session_memory[o]
              /\ Len(conversations') = Len(conversations) + 1
              /\ SubSeq(conversations', 1, Len(conversations)) = conversations
              /\ row.session_id = s
              /\ row.query = fn_call'.query
              /\ row.response = fn_call'.result.answer
              /\ row.intent = fn_call'.result.intent
              /\ fn_call'.routed_to_qa => row.intent = "qa"
              /\ ChunksOf(row.context_chunks) = RetrievedBy(fn_call')
              /\ \A i \in 1..Len(row.context_chunks) :
                    i % 2 = 0 => row.context_chunks[i] = "|"]_vars

\* the second call of a run is answered from two passages, P2 nearer than
\* P1, for a session whose window holds a turn
C32_Witness ==
    /\ fn_call.op = "process_query"
    /\ ~fn_call.raised
    /\ fn_call.routed_to_qa
    /\ fn_call.env.ranked = <<P2, P1>>
    /\ Len(conversations) = 2
    /\ conversations[2].context_chunks = <<P2.text, "|", P1.text>>
    /\ conversations[1].session_id = fn_call.session_id
    /\ session_memory[fn_call.session_id][1].user = fn_call.query

\* a step is a call of process_query
Called == fn_call'.n = fn_call.n + 1 /\ fn_call'.op = "process_query"

\* the (query, response) pairs of a list of turns
Exchanges(turns) ==
    [i \in 1..Len(turns) |-> <<turns[i].user, turns[i].assistant>>]

\* the window of every session is the last max_turns rows of the session
TiersAgree ==
    \A s \in Sessions :
        Exchanges(session_memory[s]) =
            Exchanges(conversation_get_history(conversations, s, max_turns))

\* C34: after any sequence of process_query calls, the window of each
\* session equals the (query, response) projection of the last max_turns
\* durable rows of that session, in the same order.
C34_TiersAgree == TiersAgree

\* the tiers stay in agreement over every call whose durable write does not
\* raise, and over the passing of time
C34_TiersAgreeWhileStoreWrites ==
    [][TiersAgree /\ ~(Called /\ fn_call'.failed = "store") => TiersAgree']_vars

\* C35: a call of process_query that raises leaves both tiers as they were.
C35_NoTurnWhenRaised ==
    [][Called /\ fn_call'.raised =>
          session_memory' = session_memory /\ conversations' = conversations]_vars

\* a call whose agent raises leaves both tiers as they were; a call whose
\* durable write raises has written the session tier and not the durable one
C35_TurnInSessionTierOnly ==
    [][Called /\ fn_call'.raised =>
          /\ conversations' = conversations
          /\ fn_call'.failed = "agent" => session_memory' = session_memory
          /\ fn_call'.failed = "store" =>
                LET window == session_memory'[fn_call'.session_id]
                IN  /\ Len(window) >= 1
                    /\ window[Len(window)].user = fn_call'.query]_vars

(***************************************************************************)
(* Reading back what was written to the cache                              *)
(***************************************************************************)

\* the last operation on the cache was set(q, r), its entry is in the table,
\* and less than ttl_hours have passed since; the host is on UTC
WrittenAndFresh ==
    /\ cache_call.op = "set"
    /\ utc_offset = 0
    /\ \E row \in RowsOf(faq_cache, hash_query(cache_call.query)) :
          clock - row.last_accessed < ttl_hours

\* the step is a get of the hash the last set wrote
ReadsBack ==
    /\ cache_call'.op = "get"
    /\ hash_query(cache_call'.query) = hash_query(cache_call.query)

\* C33: a get(q) after set(q, r), with no set of the hash in between, the
\* entry in the table and less than ttl_hours passed since the set,
\* returns r.
C33_ReadYourWrites ==
    [][WrittenAndFresh /\ ReadsBack => cache_call'.ret = cache_call.response]_vars

\* an entry is read back when less than ttl_hours have passed since the
\* insert that created it
C33_ReadYourInserts ==
    [][/\ WrittenAndFresh /\ ReadsBack
       /\ \E row \in RowsOf(faq_cache, hash_query(cache_call.query)) :
             clock - row.created_at < ttl_hours
       => cache_call'.ret = cache_call.response]_vars

\* the question as the prompt states it
QuestionLine(query) == <<Lit("USER QUESTION: ")>> \o query

\* C36: every prompt generate_with_context hands to the provider holds the
\* question of the user, also when the assembled prompt is over the budget.
C36_QuestionIsSent ==
    fn_call.op = "generate_with_context" =>
        Contains(fn_call.out.sent, QuestionLine(fn_call.query))

\* a prompt within the budget holds the question; a prompt over the budget
\* holds it only where the cut falls behind it
C36_QuestionIsSentWithinBudget ==
    fn_call.op = "generate_with_context" =>
        LET assembled == fn_call.out.assembled
            at == Kth(Positions(assembled, Lit("USER QUESTION: ")), 1)
        IN  Contains(fn_call.out.sent, QuestionLine(fn_call.query))
               <=> at + Len(fn_call.query) <= max_context

(***************************************************************************)
(* The hit counter of a cache entry                                        *)
(***************************************************************************)

\* the step is a get that hits the entry of the hash
GetHits(query_hash) ==
    /\ clock' = clock
    /\ cache_call'.op = "get"
    /\ cache_call'.ret # NoAnswer
    /\ hash_query(cache_call'.query) = query_hash

\* the step is a set on the hash, which has an entry
SetOverwrites(query_hash) ==
    /\ clock' = clock
    /\ cache_call'.op = "set"
    /\ hash_query(cache_call'.query) = query_hash
    /\ RowsOf(faq_cache, query_hash) # {}

\* C37: an entry is inserted with hit_count 1, and while it exists every
\* get hit and every overwriting set on its hash adds one to it and nothing
\* else changes it: hit_count is at least 1 and never decreases.
C37_HitCountCounts ==
    [][\A new \in faq_cache' :
          /\ new.hit_count >= 1
          /\ \A old \in faq_cache :
                old.id = new.id =>
                   new.hit_count =
                      old.hit_count
                      + (IF GetHits(old.query_hash) \/ SetOverwrites(old.query_hash)
                         THEN 1 ELSE 0)
          /\ (\A old \in faq_cache : old.id # new.id) => new.hit_count = 1]_vars

\* an entry that was overwritten after its insert is hit by a get
C37_Witness ==
    /\ cache_call.op = "get"
    /\ cache_call.ret = R2
    /\ \E row \in RowsOf(faq_cache, hash_query(cache_call.query)) :
          /\ row.hit_count = 3
          /\ row.created_at < row.last_accessed

(***************************************************************************)
(* Concurrent writers of one session window                                *)
(***************************************************************************)

AddersDone == \A t \in Threads : add_turn_calls.at[t].pc = "done"

\* the window of the raced session holds the turn thread t added
Holds(t) ==
    \E i \in 1..Len(session_memory[RacedSession]) :
        session_memory[RacedSession][i].user = QueryOf(t)

\* C38: once all concurrent add_turn calls of a session have completed the
\* window holds at most max_turns turns, and every added turn is in it
\* unless max_turns or more turns were added after it.
C38_NoTurnLost ==
    AddersDone =>
        /\ Len(session_memory[RacedSession]) <= max_turns
        /\ \A k \in 1..Len(add_turn_calls.appended) :
              Len(add_turn_calls.appended) - k < max_turns =>
                  Holds(add_turn_calls.appended[k])

\* the window is within its bound once the calls have completed
C38_WindowBounded ==
    AddersDone => Len(session_memory[RacedSession]) <= max_turns

(***************************************************************************)
(* Properties of the application                                           *)
(***************************************************************************)

\* the step is a run of the chat input handler that answered its question
IsAnsweredChat == app_call'.n = app_call.n + 1 /\ ~app_call'.raised

\* C1: every run of the handler that answers a question, from the cache or
\* not, leaves a new turn for that question at the end of the session's
\* window and a new row for it at the end of the durable log.
C1_BothTiersEveryTurn ==
    [][IsAnsweredChat =>
          LET window == session_memory'[app_call'.session_id]
          IN  /\ window # <<>>
              /\ window[Len(window)].user = app_call'.query
              /\ Len(conversations') = Len(conversations) + 1
              /\ conversations'[Len(conversations')].query = app_call'.query
              /\ conversations'[Len(conversations')].session_id = app_call'.session_id]_vars

\* what the code keeps of C1: a run that misses the cache and answers
\* writes the turn to both tiers; a run answered from the cache writes to
\* neither
C1_TiersWrittenOnMissOnly ==
    [][IsAnsweredChat =>
          IF app_call'.hit
          THEN session_memory' = session_memory /\ conversations' = conversations
          ELSE LET window == session_memory'[app_call'.session_id]
               IN  /\ window[Len(window)].user = app_call'.query
                   /\ window[Len(window)].assistant = app_call'.answer
                   /\ conversations' = Append(conversations,
                                              conversations'[Len(conversations')])
                   /\ conversations'[Len(conversations')].query = app_call'.query
                   /\ conversations'[Len(conversations')].response = app_call'.answer]_vars


\* the entries of the cache for the normalized query that have not expired
LiveEntries(query) == {row \in RowsOf(faq_cache, hash_query(query)) : within_ttl(row)}

\* a run of the handler for `query` has just ended
RanFor(query) == app_call'.n = app_call.n + 1 /\ app_call'.query = query

\* C26: a run that finds a non-expired entry for the normalized query
\* answers with the stored response and routes nothing: no classification,
\* retrieval or generation call; a run that finds none routes the query and
\* writes the generated answer to the cache once it has it.
C26_ReadBeforeRoutingWriteAfter ==
    [][\A query \in AppQueries :
          RanFor(query) =>
             /\ LiveEntries(query) # {} =>
                   /\ app_call'.hit /\ ~app_call'.routed
                   /\ \E row \in LiveEntries(query) : app_call'.answer = row.response
                   /\ qa_call' = qa_call
             /\ LiveEntries(query) = {} =>
                   /\ app_call'.routed
                   /\ ~app_call'.raised =>
                         \E row \in RowsOf(faq_cache', hash_query(query)) :
                            row.response = app_call'.answer]_vars

\* what the code keeps of C26: all of it when the stored response is not
\* the empty string
C26_NonEmptyEntryIsServed ==
    [][\A query \in AppQueries :
          RanFor(query) =>
             /\ (\E row \in LiveEntries(query) : Truthy(row.response)) =>
                   /\ app_call'.hit /\ ~app_call'.routed
                   /\ \E row \in LiveEntries(query) : app_call'.answer = row.response
                   /\ qa_call' = qa_call
             /\ LiveEntries(query) = {} =>
                   /\ app_call'.routed
                   /\ ~app_call'.raised =>
                         \E row \in RowsOf(faq_cache', hash_query(query)) :
                            row.response = app_call'.answer]_vars

====
